---- MODULE Spec2Model ----
(***************************************************************************)
(* A model of the morph-agent core: the TaskQueue (src/src/task-queue.ts), *)
(* the Executor (Executor.runTask), the directive parser                   *)
(* (src/src/parser.ts) and the Agent's chat loop (src/src/agent.ts).       *)
(*                                                                         *)
(* JavaScript values are modelled as follows.                              *)
(*   - an optional value (T | undefined) is a sequence of length 0 or 1:   *)
(*     None is undefined, Some(v) is the value v;                          *)
(*   - a plain object used as a dictionary (Record<string, T> = {}) is a   *)
(*     function whose DOMAIN is the set of its own keys; the `in` operator *)
(*     also sees the keys inherited from Object.prototype;                 *)
(*   - a Set<string> is a duplicate-free sequence in insertion order;      *)
(*   - an array is a sequence; arrays that are shared by reference (the    *)
(*     history) live in a heap indexed by reference.                       *)
(***************************************************************************)
EXTENDS Naturals, Sequences, FiniteSets, TLC

VARIABLES
  queue,         \* a TaskQueue driven directly through its public methods
  lastCall,      \* the last method called on `queue` (or runTask called on
                 \* the Executor), its arguments and outcome
  heap,          \* the history arrays, by reference
  history,       \* Agent.history: the reference the Agent instance holds
  pc,            \* per chat invocation: the await or statement it is at
  stack,         \* per chat invocation: frames of processThinkingDirective /
                 \* processRegularTasks, innermost last
  accumulatedUi, \* per chat invocation: chat's local accumulatedUi
  call,          \* per chat invocation: the outstanding external call
  returned,      \* per chat invocation: None, or Some(reference returned)
  mounted,       \* uiAdapter.mount calls, in order
  warnings,      \* console.warn calls of the Agent, in order
  ran,           \* per chat invocation: the tasks passed to Executor.runTask
  prompts,       \* per chat invocation: the history each generate call saw
  llm,           \* the generator: its behaviour and how much it has said
  cur,           \* the invocation whose synchronous code is running (0: none)
  events,        \* the events passed to opts.onEvent, in order
  thrown,        \* per chat invocation: None, or Some(error chat rejected with)
  rawSegments,   \* the pieces (prose, blocks) a raw text was written from
  rawInput,      \* the raw text handed to parseDirectives
  extracted      \* None, or Some(outcome of parseDirectives(rawInput))

vars == << queue, lastCall, heap, history, pc, stack, accumulatedUi, call,
           returned, mounted, warnings, ran, prompts, llm, cur, events,
           thrown, rawSegments, rawInput, extracted >>

agentVars == << heap, history, pc, stack, accumulatedUi, call, returned,
                mounted, warnings, ran, prompts, llm, cur, events, thrown >>

queueVars == << queue, lastCall >>

parserVars == << rawSegments, rawInput, extracted >>

-----------------------------------------------------------------------------
(* Optional values and small helpers.                                      *)

None == << >>

Some(v) == << v >>

IsSome(o) == o # << >>

Get(o) == o[1]

Last(s) == s[Len(s)]

RECURSIVE Filter(_, _)
\* Array.prototype.filter, with the kept positions given as a set of indices.
Filter(s, keep) ==
  IF s = << >> THEN << >>
  ELSE LET rest == Filter(Tail(s), {i - 1 : i \in keep \ {1}})
       IN  IF 1 \in keep THEN << Head(s) >> \o rest ELSE rest

Range(s) == {s[i] : i \in DOMAIN s}

-----------------------------------------------------------------------------
(* Bounds of the model.                                                    *)

\* How many directive-bearing responses the unscripted generator gives
\* before it answers with plain text only.
MaxDirectiveResponses == 3

\* How many directive-bearing responses the generator of SpecConcurrent
\* gives to the two invocations together.
MaxConcurrentDirectiveResponses == 2

\* How many directive-bearing responses the generator that asks for
\* requests depending on each other gives.
MaxCyclicResponses == 2

\* How many pieces (prose, blocks) a raw text given to parseDirectives has.
MaxSegments == 3

\* The longest plan the generator that answers with one plan and then with
\* text puts in its first response.
MaxPlanSteps == 10

\* How many generate calls of one turn the model follows (a generator that
\* never stops issuing directives is followed this far).
MaxGenerateCalls == 18

-----------------------------------------------------------------------------
(* Tasks, results and the ids the model draws from.                        *)

\* Keys every object literal inherits from Object.prototype: `key in {}` is
\* true for each of them.
ObjectPrototypeKeys ==
  { "constructor", "toString", "valueOf", "hasOwnProperty", "isPrototypeOf",
    "propertyIsEnumerable", "toLocaleString", "__proto__" }

Task(id, kind, params, dependsOn) ==
  [id |-> id, kind |-> kind, params |-> params, dependsOn |-> dependsOn]

\* TaskResult {id, status, output?, error?}
TaskResult(id, status, output, error) ==
  [id |-> id, status |-> status, output |-> output, error |-> error]

-----------------------------------------------------------------------------
(* TaskQueue (src/src/task-queue.ts).                                      *)

EmptyObject == [k \in {} |-> None]

\* new TaskQueue(): tasks = {}, taskResults = {}, pending = new Set()
NewTaskQueue ==
  [tasks |-> EmptyObject, taskResults |-> EmptyObject, pending |-> << >>]

\* obj[key] = value
SetProperty(obj, key, value) ==
  [k \in DOMAIN obj \cup {key} |-> IF k = key THEN value ELSE obj[k]]

\* obj.hasOwnProperty(key)
HasOwnProperty(obj, key) == key \in DOMAIN obj

\* key in obj: own keys and the keys inherited from Object.prototype
In(key, obj) == key \in DOMAIN obj \/ key \in ObjectPrototypeKeys

\* Set.prototype.has
SetHas(set, v) == v \in Range(set)

SetAddMovesToEnd(set, v) ==
  Append(Filter(set, {i \in DOMAIN set : set[i] # v}), v)

\* Set.prototype.add: an element already present keeps its position
SetAdd(set, v) == IF SetHas(set, v) THEN set ELSE Append(set, v)

\* Set.prototype.delete
SetDelete(set, v) == Filter(set, {i \in DOMAIN set : set[i] # v})

addNoResultCheck(q, task) ==
  [q EXCEPT !.tasks = SetProperty(q.tasks, task.id, task),
            !.pending = SetAdd(q.pending, task.id)]

\* TaskQueue.add
add(q, task) ==
  LET defined == [q EXCEPT !.tasks = SetProperty(q.tasks, task.id, task)]
  IN  IF HasOwnProperty(q.taskResults, task.id)
      THEN defined
      ELSE [defined EXCEPT !.pending = SetAdd(q.pending, task.id)]

RECURSIVE addMany(_, _)
\* TaskQueue.addMany
addMany(q, tasks) ==
  IF tasks = << >> THEN q ELSE addMany(add(q, Head(tasks)), Tail(tasks))

isReadyOkOnly(q, taskId) ==
  LET task == q.tasks[taskId]
  IN  \/ ~IsSome(task.dependsOn)
      \/ \A i \in DOMAIN Get(task.dependsOn) :
            /\ HasOwnProperty(q.taskResults, Get(task.dependsOn)[i])
            /\ q.taskResults[Get(task.dependsOn)[i]].status = "ok"

\* The predicate nextReady passes to find: no dependsOn, or every dependsOn
\* id `in` taskResults.
isReady(q, taskId) ==
  LET task == q.tasks[taskId]
  IN  \/ ~IsSome(task.dependsOn)
      \/ \A i \in DOMAIN Get(task.dependsOn) :
            In(Get(task.dependsOn)[i], q.taskResults)

nextReadyWithoutDependenciesOnly(q) ==
  LET ready == {i \in DOMAIN q.pending : ~IsSome(q.tasks[q.pending[i]].dependsOn)}
  IN  IF ready = {} THEN None
      ELSE Some(q.tasks[q.pending[CHOOSE i \in ready : \A j \in ready : i <= j]])

\* TaskQueue.nextReady: the first pending id, in insertion order, that is
\* ready; `readyTaskId ? ... : undefined` also yields undefined for "".
nextReady(q) ==
  LET ready == {i \in DOMAIN q.pending : isReady(q, q.pending[i])}
  IN  IF ready = {} THEN None
      ELSE LET readyTaskId == q.pending[CHOOSE i \in ready : \A j \in ready : i <= j]
           IN  IF readyTaskId = "" THEN None ELSE Some(q.tasks[readyTaskId])

completeThrowsNever(q, result) == FALSE

\* TaskQueue.complete throws when the id is not pending
completeThrows(q, result) == ~SetHas(q.pending, result.id)

completeKeepsPending(q, result) ==
  [q EXCEPT !.taskResults = SetProperty(q.taskResults, result.id, result)]

\* TaskQueue.complete, when it does not throw
complete(q, result) ==
  [q EXCEPT !.taskResults = SetProperty(q.taskResults, result.id, result),
            !.pending = SetDelete(q.pending, result.id)]

\* TaskQueue.isFinished
isFinished(q) == Len(q.pending) = 0

\* TaskQueue.getResults
getResults(q) == q.taskResults

-----------------------------------------------------------------------------
(* SpecQueue: a caller drives one TaskQueue through its public methods, as *)
(* src/tests/task-queue.test.ts does, in any order and with any argument.  *)

\* The requests a caller enqueues: A without dependsOn (and a second
\* definition of A with other params and an empty dependsOn), B after A
\* (and a second definition of B of another kind without dependsOn),
\* C after A and B, D after an id that is a key of Object.prototype, E after
\* an id nobody enqueues.
QueueTasks ==
  { Task("A", "callApi", "p1", None),
    Task("A", "callApi", "p2", Some(<< >>)),
    Task("B", "callApi", "p1", Some(<< "A" >>)),
    Task("B", "other", "p2", None),
    Task("C", "callApi", "p1", Some(<< "A", "B" >>)),
    Task("D", "callApi", "p1", Some(<< "constructor" >>)),
    Task("E", "callApi", "p1", Some(<< "Z" >>)) }

QueueIds == {t.id : t \in QueueTasks} \cup {"Z"}

\* The results a caller completes with: any id with status ok, and A and B
\* also with status error.
QueueResults ==
  {TaskResult(id, "ok", Some("data"), None) : id \in QueueIds}
    \cup {TaskResult(id, "error", None, Some("boom")) : id \in {"A", "B"}}

\* The arrays a caller passes to addMany: a dependent before its
\* dependency, a chain in order, a redefinition with a blocked request, and
\* the empty array.
AddManyArguments ==
  { << Task("B", "callApi", "p1", Some(<< "A" >>)), Task("A", "callApi", "p1", None) >>,
    << Task("A", "callApi", "p1", None), Task("B", "callApi", "p1", Some(<< "A" >>)),
       Task("C", "callApi", "p1", Some(<< "A", "B" >>)) >>,
    << Task("A", "callApi", "p2", Some(<< >>)), Task("E", "callApi", "p1", Some(<< "Z" >>)) >>,
    << >> }

QueueCall(op, tasks, results, ret, threw) ==
  [op |-> op, tasks |-> tasks, results |-> results, ret |-> ret, threw |-> threw]

\* queue.add(task)
QAdd(task) ==
  /\ queue' = add(queue, task)
  /\ lastCall' = QueueCall("add", << task >>, << >>, None, FALSE)
  /\ UNCHANGED << agentVars, parserVars >>

\* queue.addMany(tasks)
QAddMany(tasks) ==
  /\ queue' = addMany(queue, tasks)
  /\ lastCall' = QueueCall("addMany", tasks, << >>, None, FALSE)
  /\ UNCHANGED << agentVars, parserVars >>

QNextReadyDequeues ==
  /\ queue' = IF IsSome(nextReady(queue))
              THEN [queue EXCEPT !.pending = SetDelete(@, Get(nextReady(queue)).id)]
              ELSE queue
  /\ lastCall' = QueueCall("nextReady", << >>, << >>, nextReady(queue), FALSE)
  /\ UNCHANGED << agentVars, parserVars >>

\* queue.nextReady()
QNextReady ==
  /\ queue' = queue
  /\ lastCall' = QueueCall("nextReady", << >>, << >>, nextReady(queue), FALSE)
  /\ UNCHANGED << agentVars, parserVars >>

\* queue.complete(result): throws, leaving the queue as it was, or records
QComplete(result) ==
  /\ queue' = IF completeThrows(queue, result) THEN queue
              ELSE complete(queue, result)
  /\ lastCall' = QueueCall("complete", << >>, << result >>, None,
                           completeThrows(queue, result))
  /\ UNCHANGED << agentVars, parserVars >>

-----------------------------------------------------------------------------
(* Executor.runTask.                                                       *)

\* The capabilities the Executor is built with: the handler of "callApi"
\* resolves, the handler of "failing" rejects with an Error, the handler of
\* "rejecting" rejects with a string.
Strategies == { "callApi", "failing", "rejecting" }

\* strategy.run(params, env): TRUE when it resolves, FALSE when it throws
StrategyResolves(kind) == kind = "callApi"

\* What strategy.run resolves with
StrategyOutput(kind, params) == "data"

\* What strategy.run throws or rejects with: an Error with a message, or a
\* value that is not an Error (a string)
StrategyCause(kind) ==
  IF kind = "failing" THEN [isError |-> TRUE, message |-> "boom"]
  ELSE [isError |-> FALSE, message |-> "String exception"]

\* line 68: error instanceof Error ? error.message : String(error)
CauseText(cause) == cause.message

\* this.strategies[kind] on the object literal the constructor fills: the
\* registered strategy, a member inherited from Object.prototype (truthy,
\* without a run method), or undefined
StrategyLookup(kind) ==
  IF kind \in Strategies THEN "strategy"
  ELSE IF kind \in ObjectPrototypeKeys THEN "inherited"
  ELSE "undefined"

\* The try block of runTask (lines 45-63) ends by returning a result or by
\* throwing a cause: an unknown kind returns the error result of line 50,
\* calling the run of an inherited member throws a TypeError, and the
\* handler's own outcome is returned as an ok result or thrown on.
TryBlock(task) ==
  CASE StrategyLookup(task.kind) = "undefined" ->
         [result |-> Some(TaskResult(task.id, "error", None,
                                     Some("No strategy registered"))),
          cause |-> None]
    [] StrategyLookup(task.kind) = "inherited" ->
         [result |-> None,
          cause |-> Some([isError |-> TRUE,
                          message |-> "strategy.run is not a function"])]
    [] OTHER ->
         IF StrategyResolves(task.kind)
         THEN [result |-> Some(TaskResult(task.id, "ok",
                                 Some(StrategyOutput(task.kind, task.params)), None)),
               cause |-> None]
         ELSE [result |-> None, cause |-> Some(StrategyCause(task.kind))]

CatchBlockRethrows(task, cause) == [result |-> None, cause |-> Some(cause)]

CatchBlockWithoutTaskId(task, cause) ==
  [result |-> Some(TaskResult("", "error", None, Some(CauseText(cause)))),
   cause |-> None]

\* The catch block of runTask (lines 64-70): the error result of the task
CatchBlock(task, cause) ==
  [result |-> Some(TaskResult(task.id, "error", None, Some(CauseText(cause)))),
   cause |-> None]

\* How the promise of runTask settles: with a result, or with a cause
runTaskSettles(task) ==
  LET tried == TryBlock(task)
  IN  IF IsSome(tried.cause) THEN CatchBlock(task, Get(tried.cause)) ELSE tried

\* Executor.runTask: the result its promise resolves with
runTask(task) == Get(runTaskSettles(task).result)

\* Whether the promise of runTask rejects
runTaskThrows(task) == IsSome(runTaskSettles(task).cause)

\* The requests a caller passes to runTask: every id and kind below (kinds
\* with a registered handler, kinds without, a kind that is a key of
\* Object.prototype, a missing kind), with and without dependsOn.
ExecutorTasks ==
  { Task(id, kind, params, dependsOn) :
      id \in {"A", "B", "task2", "constructor"},
      kind \in Strategies \cup {"nonExistentKind", "constructor", "toString", ""},
      params \in {"p1", "p2"},
      dependsOn \in {None, Some(<< >>), Some(<< "A" >>)} }

\* executor.runTask(task)
XRunTask(task) ==
  /\ lastCall' = QueueCall("runTask", << task >>, runTaskSettles(task).result,
                           None, runTaskThrows(task))
  /\ UNCHANGED << queue, agentVars, parserVars >>

-----------------------------------------------------------------------------
(* parseDirectives (src/src/parser.ts).  A text is the sequence of its     *)
(* fenced blocks, in order; the prose around them is never looked at.  A   *)
(* block is its tag and its payload: whether JSON.parse accepts it and,    *)
(* if so, the fields of the object ("" for a missing or empty string,     *)
(* None for a missing array).                                              *)

JsonObject(id, kind, params, dependsOn, type, tasks) ==
  [id |-> id, kind |-> kind, params |-> params, dependsOn |-> dependsOn,
   type |-> type, tasks |-> tasks]

Block(tag, valid, obj) == [tag |-> tag, valid |-> valid, obj |-> obj]

TaskBlock(t) ==
  Block("Task", TRUE, JsonObject(t.id, t.kind, t.params, t.dependsOn, "", None))

UiBlock(id, type) ==
  Block("Ui", TRUE, JsonObject(id, "", "", None, type, None))

ThinkingBlock(tasks) ==
  Block("Thinking", TRUE, JsonObject("", "", "", None, "", Some(tasks)))

MalformedBlock(tag) ==
  Block(tag, FALSE, JsonObject("", "", "", None, "", None))

\* `payload as Task`
AsTask(obj) == Task(obj.id, obj.kind, obj.params, obj.dependsOn)

\* `payload as UiDescriptor`
AsUiDescriptor(obj) == [id |-> obj.id, type |-> obj.type]

\* parseDirectives: tasks and ui in block order, the last valid Thinking
\* block as thinkingDirective
parseDirectives(rawText) ==
  LET isTask(b) == b.tag = "Task" /\ b.valid /\ b.obj.id # "" /\ b.obj.kind # ""
      isUi(b) == b.tag = "Ui" /\ b.valid /\ b.obj.id # "" /\ b.obj.type # ""
      isThinking(b) == b.tag = "Thinking" /\ b.valid /\ IsSome(b.obj.tasks)
      taskAt == {i \in DOMAIN rawText : isTask(rawText[i])}
      uiAt == {i \in DOMAIN rawText : isUi(rawText[i])}
      thinkingAt == {i \in DOMAIN rawText : isThinking(rawText[i])}
      tasks == Filter(rawText, taskAt)
      ui == Filter(rawText, uiAt)
  IN  [rawText |-> rawText,
       tasks |-> [i \in DOMAIN tasks |-> AsTask(tasks[i].obj)],
       ui |-> [i \in DOMAIN ui |-> AsUiDescriptor(ui[i].obj)],
       thinkingDirective |->
         IF thinkingAt = {} THEN None
         ELSE LET last == CHOOSE i \in thinkingAt : \A j \in thinkingAt : j <= i
              IN  Some([tasks |-> Get(rawText[last].obj.tasks)])]

-----------------------------------------------------------------------------
(* parseDirectives on the text itself.  A raw text is a sequence of        *)
(* lexical units: the fence ```, words, line breaks, blanks, and the       *)
(* units of JSON (string, number and literal tokens, punctuation).         *)

Tok(k, s) == [k |-> k, s |-> s]

\* the three backticks of a fence
Fence == Tok("fence", "backticks")

NL == Tok("nl", "\n")

SP == Tok("sp", " ")

\* A JavaScript value: a JSON value, or undefined.  An object's kids are
\* its members in key order, each a key with one value.
JsValue(t, s, kids) == [t |-> t, s |-> s, kids |-> kids]

JString(s) == JsValue("string", s, << >>)

JNumber(s) == JsValue("number", s, << >>)

JBoolean(s) == JsValue("boolean", s, << >>)

JNull == JsValue("null", "null", << >>)

Undefined == JsValue("undefined", "", << >>)

JArray(elements) == JsValue("array", "", elements)

Member(key, value) == JsValue("member", key, << value >>)

JObject(members) == JsValue("object", "", members)

\* payload[key]: the member's value, undefined when there is none
GetProperty(value, key) ==
  IF value.t = "object" /\ \E i \in DOMAIN value.kids : value.kids[i].s = key
  THEN value.kids[CHOOSE i \in DOMAIN value.kids : value.kids[i].s = key].kids[1]
  ELSE Undefined

\* the truthiness `payload.id && payload.kind` tests
Truthy(value) ==
  CASE value.t = "string" -> value.s # ""
    [] value.t = "number" -> value.s \notin {"0", "-0"}
    [] value.t = "boolean" -> value.s = "true"
    [] value.t \in {"null", "undefined"} -> FALSE
    [] OTHER -> TRUE

RECURSIVE JSONstringify(_), StringifyKids(_, _, _)
\* JSON.stringify(value): the compact text; a member whose value is
\* undefined is left out, an undefined array element is written null.
JSONstringify(value) ==
  CASE value.t = "string" -> << Tok("string", value.s) >>
    [] value.t = "number" -> << Tok("number", value.s) >>
    [] value.t = "boolean" -> << Tok("literal", value.s) >>
    [] value.t \in {"null", "undefined"} -> << Tok("literal", "null") >>
    [] value.t = "array" ->
         << Tok("punct", "[") >> \o StringifyKids(value.kids, FALSE, TRUE) \o << Tok("punct", "]") >>
    [] value.t = "object" ->
         << Tok("punct", "{") >> \o StringifyKids(value.kids, TRUE, TRUE) \o << Tok("punct", "}") >>

StringifyKids(kids, inObject, first) ==
  IF kids = << >> THEN << >>
  ELSE LET kid == Head(kids)
           sep == IF first THEN << >> ELSE << Tok("punct", ",") >>
       IN  IF inObject /\ kid.kids[1].t = "undefined"
           THEN StringifyKids(Tail(kids), inObject, first)
           ELSE sep
                  \o (IF inObject
                      THEN << Tok("string", kid.s), Tok("punct", ":") >> \o JSONstringify(kid.kids[1])
                      ELSE JSONstringify(kid))
                  \o StringifyKids(Tail(kids), inObject, FALSE)

RECURSIVE SkipWhitespace(_)
SkipWhitespace(text) ==
  IF text # << >> /\ Head(text).k \in {"nl", "sp"}
  THEN SkipWhitespace(Tail(text)) ELSE text

RECURSIVE trimEnd(_)
trimEnd(text) ==
  IF text # << >> /\ Last(text).k \in {"nl", "sp"}
  THEN trimEnd(SubSeq(text, 1, Len(text) - 1)) ELSE text

\* String.prototype.trim
trim(text) == trimEnd(SkipWhitespace(text))

ParseResult(ok, value, rest) == [ok |-> ok, value |-> value, rest |-> rest]

SyntaxError == ParseResult(FALSE, JNull, << >>)

\* a repeated key keeps its first position and takes the last value
SetMember(members, key, value) ==
  IF \E i \in DOMAIN members : members[i].s = key
  THEN [i \in DOMAIN members |->
          IF members[i].s = key THEN Member(key, value) ELSE members[i]]
  ELSE Append(members, Member(key, value))

RECURSIVE ParseValue(_), ParseElements(_, _), ParseMembers(_, _)
\* JSON grammar: value, the elements of an array after `[`, the members of
\* an object after `{`; each gives the value read and the text left.
ParseValue(text) ==
  LET t == SkipWhitespace(text)
  IN  IF t = << >> THEN SyntaxError
      ELSE LET head == Head(t)
               rest == Tail(t)
               after == SkipWhitespace(rest)
           IN  CASE head.k = "string" -> ParseResult(TRUE, JString(head.s), rest)
                 [] head.k = "number" -> ParseResult(TRUE, JNumber(head.s), rest)
                 [] head.k = "literal" ->
                      ParseResult(TRUE, IF head.s = "null" THEN JNull
                                        ELSE JBoolean(head.s), rest)
                 [] head = Tok("punct", "[") ->
                      IF after # << >> /\ Head(after) = Tok("punct", "]")
                      THEN ParseResult(TRUE, JArray(<< >>), Tail(after))
                      ELSE ParseElements(rest, << >>)
                 [] head = Tok("punct", "{") ->
                      IF after # << >> /\ Head(after) = Tok("punct", "}")
                      THEN ParseResult(TRUE, JObject(<< >>), Tail(after))
                      ELSE ParseMembers(rest, << >>)
                 [] OTHER -> SyntaxError

ParseElements(text, elements) ==
  LET r == ParseValue(text)
      t == SkipWhitespace(r.rest)
  IN  IF ~r.ok \/ t = << >> THEN SyntaxError
      ELSE IF Head(t) = Tok("punct", ",")
      THEN ParseElements(Tail(t), Append(elements, r.value))
      ELSE IF Head(t) = Tok("punct", "]")
      THEN ParseResult(TRUE, JArray(Append(elements, r.value)), Tail(t))
      ELSE SyntaxError

ParseMembers(text, members) ==
  LET t == SkipWhitespace(text)
  IN  IF t = << >> \/ Head(t).k # "string" THEN SyntaxError
      ELSE LET colon == SkipWhitespace(Tail(t))
           IN  IF colon = << >> \/ Head(colon) # Tok("punct", ":") THEN SyntaxError
               ELSE LET r == ParseValue(Tail(colon))
                        after == SkipWhitespace(r.rest)
                        now == SetMember(members, Head(t).s, r.value)
                    IN  IF ~r.ok \/ after = << >> THEN SyntaxError
                        ELSE IF Head(after) = Tok("punct", ",")
                        THEN ParseMembers(Tail(after), now)
                        ELSE IF Head(after) = Tok("punct", "}")
                        THEN ParseResult(TRUE, JObject(now), Tail(after))
                        ELSE SyntaxError

JSONparseNumbersAsStrings(text) ==
  LET r == ParseValue([i \in DOMAIN text |->
                         IF text[i].k = "number" THEN Tok("string", text[i].s) ELSE text[i]])
  IN  IF r.ok /\ SkipWhitespace(r.rest) = << >>
      THEN [ok |-> TRUE, value |-> r.value]
      ELSE [ok |-> FALSE, value |-> JNull]

\* JSON.parse(text): the value, or not ok where JSON.parse throws SyntaxError
JSONparse(text) ==
  LET r == ParseValue(text)
  IN  IF r.ok /\ SkipWhitespace(r.rest) = << >>
      THEN [ok |-> TRUE, value |-> r.value]
      ELSE [ok |-> FALSE, value |-> JNull]

\* DIRECTIVE_PATTERN matches from position i: ``` then the kind then \n
OpensAt(text, i) ==
  /\ i + 2 <= Len(text)
  /\ text[i] = Fence
  /\ text[i + 1].k = "word" /\ text[i + 1].s \in {"Task", "Ui", "Thinking"}
  /\ text[i + 2] = NL

\* the end of the pattern, \n```, is at position j
ClosesAt(text, j) ==
  /\ j + 1 <= Len(text)
  /\ text[j] = NL
  /\ text[j + 1] = Fence

\* DIRECTIVE_PATTERN.exec(rawText) from lastIndex: the leftmost match, its
\* payload group the shortest that reaches a \n```; None when exec
\* returns null.
exec(text, lastIndex) ==
  LET starts == {i \in lastIndex..Len(text) :
                   /\ OpensAt(text, i)
                   /\ \E j \in (i + 3)..Len(text) : ClosesAt(text, j)}
  IN  IF starts = {} THEN None
      ELSE LET i == CHOOSE a \in starts : \A b \in starts : a <= b
               ends == {j \in (i + 3)..Len(text) : ClosesAt(text, j)}
               j == CHOOSE a \in ends : \A b \in ends : a <= b
           IN  Some([directiveKind |-> text[i + 1].s,
                     group |-> SubSeq(text, i + 3, j - 1),
                     lastIndex |-> j + 2])

\* the ParsedMessage parseDirectives builds (console.warn calls recorded)
ParsedMessage(rawText, tasks, ui, thinkingDirective, warned) ==
  [rawText |-> rawText, tasks |-> tasks, ui |-> ui,
   thinkingDirective |-> thinkingDirective, warned |-> warned]

\* the try block of parseDirectives, lines 42-67: the message after it, or
\* the error it raised (JSON.parse on a bad payload, a property read on null)
ParseTryBlock(message, directiveKind, jsonPayload) ==
  LET parsed == JSONparse(jsonPayload)
      payload == parsed.value
  IN  IF ~parsed.ok
      THEN [message |-> message, cause |-> Some("SyntaxError")]
      ELSE IF payload.t = "null"
      THEN [message |-> message, cause |-> Some("TypeError")]
      ELSE [cause |-> None,
            message |->
              CASE directiveKind = "Task" ->
                     IF Truthy(GetProperty(payload, "id"))
                          /\ Truthy(GetProperty(payload, "kind"))
                     THEN [message EXCEPT !.tasks = Append(@, payload)]
                     ELSE [message EXCEPT !.warned = Append(@, "Invalid Task structure")]
                [] directiveKind = "Ui" ->
                     IF Truthy(GetProperty(payload, "id"))
                          /\ Truthy(GetProperty(payload, "type"))
                     THEN [message EXCEPT !.ui = Append(@, payload)]
                     ELSE [message EXCEPT !.warned = Append(@, "Invalid Ui structure")]
                [] directiveKind = "Thinking" ->
                     IF GetProperty(payload, "tasks").t = "array"
                     THEN [message EXCEPT !.thinkingDirective = Some(payload)]
                     ELSE [message EXCEPT !.warned =
                             Append(@, "Invalid Thinking structure")]]

\* the catch block, lines 68-73: a warning, nothing rethrown
ParseCatchBlock(message, cause) ==
  [message |-> [message EXCEPT !.warned = Append(@, "Failed to parse JSON")],
   thrown |-> None]

RECURSIVE execLoop(_, _)
\* the while loop of lines 38-74, from DIRECTIVE_PATTERN.lastIndex on
execLoop(message, lastIndex) ==
  LET match == exec(message.rawText, lastIndex)
  IN  IF ~IsSome(match) THEN [returned |-> Some(message), thrown |-> None]
      ELSE LET m == Get(match)
               try == ParseTryBlock(message, m.directiveKind, trim(m.group))
               settled == IF IsSome(try.cause)
                          THEN ParseCatchBlock(try.message, Get(try.cause))
                          ELSE [message |-> try.message, thrown |-> None]
           IN  IF IsSome(settled.thrown)
               THEN [returned |-> None, thrown |-> settled.thrown]
               ELSE execLoop(settled.message, m.lastIndex)

\* parseDirectives(rawText) on a text: what it returns, or what it throws
parseDirectivesSettles(rawText) ==
  execLoop(ParsedMessage(rawText, << >>, << >>, None, << >>), 1)

\* A directive block as it is written in a text: the opening fence with the
\* kind, a line break, the payload, a line break, the closing fence.
BlockText(tag, payload) == << Fence, Tok("word", tag), NL >> \o payload \o << NL, Fence >>

\* A piece of a raw text: prose (tag ""), or a block with the value of its
\* payload; wellFormed says the block carries valid JSON with its required
\* fields, serialized that it was written by serializing a request.
Segment(tag, wellFormed, value, text, serialized) ==
  [tag |-> tag, wellFormed |-> wellFormed, value |-> value, text |-> text,
   serialized |-> serialized]

Prose(text) == Segment("", FALSE, JNull, text, FALSE)

DirectiveBlock(tag, value) ==
  Segment(tag, TRUE, value, BlockText(tag, JSONstringify(value)), FALSE)

\* the payload between blanks and blank lines
PaddedBlock(tag, value) ==
  Segment(tag, TRUE, value,
          BlockText(tag, << SP, NL, SP >> \o JSONstringify(value) \o << SP, SP, NL >>),
          FALSE)

\* valid JSON without the required fields of its kind
IncompleteBlock(tag, value) ==
  Segment(tag, FALSE, value, BlockText(tag, JSONstringify(value)), FALSE)

\* a payload that is not JSON
InvalidJsonBlock(tag) ==
  Segment(tag, FALSE, JNull,
          BlockText(tag, << Tok("punct", "{"), Tok("string", "id"), Tok("punct", ":"), Tok("string", "t1"),
                           Tok("punct", ","), Tok("word", "kind"), Tok("string", ":"), Tok("string", "badJSON"),
                           Tok("punct", "}") >>),
          FALSE)

\* a block without payload: the closing fence on the line after the opening
EmptyBlock(tag) == Segment(tag, FALSE, JNull, << Fence, Tok("word", tag), NL, Fence >>, FALSE)

Request(id, kind, params, dependsOn) ==
  JObject(<< Member("id", JString(id)), Member("kind", JString(kind)),
             Member("params", params), Member("dependsOn", dependsOn) >>)

\* {"id":"t1","kind":"mockKind","params":{"data":123}}
mockT1 ==
  Request("t1", "mockKind", JObject(<< Member("data", JNumber("123")) >>), Undefined)

\* {"id":"t2","kind":"mockKind","params":{"a":{"b":[1,"1"]}},"dependsOn":["t1","t0"]}
mockT2 ==
  Request("t2", "mockKind",
          JObject(<< Member("a", JObject(<< Member("b",
                       JArray(<< JNumber("1"), JString("1") >>)) >>)) >>),
          JArray(<< JString("t1"), JString("t0") >>))

\* The requests serialized as Task blocks: without dependsOn, with nested
\* params and ordered dependsOn, with empty params and empty dependsOn,
\* with a number and the string of its digits, with false, null and zero.
ActionRequests ==
  { mockT1,
    mockT2,
    Request("a", "x", JObject(<< >>), JArray(<< >>)),
    Request("b", "x", JObject(<< Member("n", JNumber("1")), Member("s", JString("1")) >>),
            JArray(<< JString("z"), JString("a"), JString("m") >>)),
    Request("c", "x", JObject(<< Member("flag", JBoolean("false")),
                                  Member("none", JNull),
                                  Member("zero", JNumber("0")) >>), Undefined),
    JObject(<< Member("id", JString("d")), Member("kind", JString("x")) >>) }

\* JSON.parse(JSON.stringify(value)) as a value: the members that are
\* undefined are not there
Written(value) == JSONparse(JSONstringify(value)).value

uiButton ==
  JObject(<< Member("id", JString("ui1")), Member("type", JString("Button")),
             Member("props", JObject(<< Member("label", JString("Click me")) >>)) >>)

Thinking(id) ==
  JObject(<< Member("tasks", JArray(<<
     JObject(<< Member("id", JString(id)), Member("kind", JString("mockKind")) >>) >>)) >>)

\* The pieces raw texts are written from.
Segments ==
  { Prose(<< Tok("word", "Some"), SP, Tok("word", "text") >>),
    Prose(<< NL >>),
    DirectiveBlock("Task", Written(mockT1)),
    PaddedBlock("Task", Written(mockT2)),
    DirectiveBlock("Ui", uiButton),
    DirectiveBlock("Thinking", Thinking("think1")),
    DirectiveBlock("Thinking", Thinking("think2")),
    InvalidJsonBlock("Task"),
    IncompleteBlock("Task", JObject(<< Member("identifier", JString("t1")),
                                        Member("action", JString("test")) >>)),
    IncompleteBlock("Ui", JObject(<< Member("id", JString("")),
                                      Member("type", JString("Button")) >>)),
    IncompleteBlock("Thinking", JObject(<< Member("actions", JArray(<< >>)) >>)),
    IncompleteBlock("Task", JNull),
    EmptyBlock("Task") }

-----------------------------------------------------------------------------
(* The generator (opts.llm).  Its answer to a prompt is any text of the    *)
(* behaviour it was built with.                                            *)

tA == Task("A", "callApi", "p1", None)

tB == Task("B", "callApi", "p1", Some(<< "A" >>))

tD == Task("D", "callApi", "p1", Some(<< "constructor" >>))

tE == Task("E", "callApi", "p1", Some(<< "Z" >>))

tF == Task("F", "failing", "p1", None)

tG == Task("G", "callApi", "p1", Some(<< "F" >>))

PlainText == << >>

\* The texts of the unscripted generator.
FreeTexts ==
  { PlainText,
    << TaskBlock(tA) >>,
    << TaskBlock(tB), TaskBlock(tA) >>,
    << TaskBlock(tA), TaskBlock(tE) >>,
    << TaskBlock(tD) >>,
    << TaskBlock(tE) >>,
    << UiBlock("u1", "Card"), TaskBlock(tF) >>,
    << TaskBlock(tF), TaskBlock(tE) >>,
    << TaskBlock(tG), TaskBlock(tF) >>,
    << TaskBlock(tA), TaskBlock(tF) >>,
    << ThinkingBlock(<< tA, tB >>) >>,
    << ThinkingBlock(<< tB >>), TaskBlock(tA) >>,
    << ThinkingBlock(<< >>), TaskBlock(tA), UiBlock("u1", "Card") >>,
    << MalformedBlock("Task"), UiBlock("u2", "Map") >>,
    << UiBlock("u1", "Card"), UiBlock("u1", "Map") >> }

\* The texts of the generator that asks for requests that depend on each
\* other (H on I and I on H), on themselves (S; `constructor`, an id that is
\* also a key of Object.prototype), or on nothing (A).
CyclicTexts ==
  { PlainText,
    << TaskBlock(tA) >>,
    << TaskBlock(Task("S", "callApi", "p1", Some(<< "S" >>))) >>,
    << TaskBlock(Task("H", "callApi", "p1", Some(<< "I" >>))),
       TaskBlock(Task("I", "callApi", "p1", Some(<< "H" >>))) >>,
    << TaskBlock(tA),
       TaskBlock(Task("H", "callApi", "p1", Some(<< "I", "A" >>))),
       TaskBlock(Task("I", "callApi", "p1", Some(<< "H" >>))) >>,
    << TaskBlock(Task("constructor", "callApi", "p1", Some(<< "constructor" >>))) >> }

\* The texts of the generator of SpecConcurrent.
ConcurrentTexts ==
  { PlainText, << TaskBlock(tA) >>, << ThinkingBlock(<< tB >>) >> }

FreshId(n) == "t" \o ToString(n)

FreshTask(n) == Task(FreshId(n), "callApi", "p1", None)

\* A plan of n steps with fresh ids
FreshPlan(n) == [i \in 1..n |-> FreshTask(i)]

\* Texts without Plan and without Task
DirectiveFreeTexts == { PlainText, << UiBlock("u2", "Map") >> }

\* What the generator may answer to its next call.  llm.mode is its
\* behaviour, llm.calls the calls it has answered, llm.said the answers
\* that carried a directive, llm.rejected the calls it has rejected.
Responses ==
  CASE llm.mode = "free" ->
         IF llm.said < MaxDirectiveResponses THEN FreeTexts ELSE {PlainText}
    [] llm.mode = "concurrent" ->
         IF llm.said < MaxConcurrentDirectiveResponses THEN ConcurrentTexts
         ELSE {PlainText}
    [] llm.mode = "cyclic" ->
         IF llm.said < MaxCyclicResponses THEN CyclicTexts ELSE {PlainText}
    [] llm.mode = "alwaysPlan" ->
         {<< ThinkingBlock(<< FreshTask(llm.calls + 1) >>) >>}
    [] llm.mode = "alwaysTask" ->
         {<< TaskBlock(FreshTask(llm.calls + 1)) >>}
    [] llm.mode = "tasksThenText" ->
         {<< TaskBlock(FreshTask(llm.calls + 1)) >>} \cup DirectiveFreeTexts
    [] llm.mode = "planThenText" ->
         IF llm.calls = 0
         THEN {<< ThinkingBlock(FreshPlan(n)) >> : n \in 0..MaxPlanSteps}
         ELSE DirectiveFreeTexts
    [] llm.mode = "alternate" ->
         IF llm.calls % 2 = 0
         THEN {<< ThinkingBlock(<< FreshTask(llm.calls + 1) >>) >>}
         ELSE {<< TaskBlock(FreshTask(llm.calls + 1)) >>}

\* Whether the generator may reject a call instead of answering it: the
\* unscripted generators may, the scripted ones answer every call.
MayReject == llm.mode \in {"free", "concurrent"}

Answered(text) ==
  [llm EXCEPT !.calls = @ + 1,
              !.said = IF text = PlainText THEN @ ELSE @ + 1]

-----------------------------------------------------------------------------
(* The Agent (src/src/agent.ts).                                           *)

Invocations == {1, 2}

\* maxIterations of processThinkingDirective
ThinkingMaxIterations == 10

\* maxIterations of processRegularTasks
RegularMaxIterations == 5

\* {role: 'user', content}; `by` records the invocation that appended the
\* entry (0: the caller, in a prior history)
UserEntry(content, p) == [role |-> "user", content |-> content, by |-> p]

\* {role: 'assistant', content}: the raw response, kept as its blocks in
\* the field text
AssistantEntry(text, p) == [role |-> "assistant", text |-> text, by |-> p]

ToolEntry(result, p) ==
  [role |-> "tool", id |-> result.id, status |-> result.status,
   output |-> result.output, error |-> result.error, by |-> p]

\* A prior history a caller passes to chat (entries of an earlier turn).
PriorHistory ==
  << UserEntry("earlier question", 0), AssistantEntry(PlainText, 0) >>

\* The reference of the array of history entries the caller of chat owns.
CallersArray == 3

\* chat's argument: a string, or (a reference to) an array of history entries
ChatInputs ==
  { [isString |-> TRUE, content |-> "weather in Paris", array |-> 0],
    [isString |-> FALSE, content |-> "", array |-> CallersArray] }

\* [...initialInput]: a new array with the elements of the given one
Spread(array) == [i \in DOMAIN array |-> array[i]]

buildPromptWithoutToolEntries(entries) ==
  LET kept == Filter(entries, {i \in DOMAIN entries : entries[i].role # "tool"})
  IN  [i \in DOMAIN kept |->
         IF kept[i].role = "user"
         THEN [line |-> "User", content |-> kept[i].content]
         ELSE [line |-> "Assistant", text |-> kept[i].text]]

\* Agent.buildPrompt: the fixed preamble, then one line per history entry
\* (role and payload; a tool line shows the output when the status is ok
\* and the error otherwise).
buildPrompt(entries) ==
  [i \in DOMAIN entries |->
     CASE entries[i].role = "user" ->
            [line |-> "User", content |-> entries[i].content]
       [] entries[i].role = "assistant" ->
            [line |-> "Assistant", text |-> entries[i].text]
       [] entries[i].role = "tool" ->
            [line |-> "Tool Observation", id |-> entries[i].id,
             status |-> entries[i].status,
             shown |-> IF entries[i].status = "ok" THEN entries[i].output
                       ELSE entries[i].error]]

\* A frame of processThinkingDirective or processRegularTasks: its locals.
Frame(fn, currentThinkingTasks, taskQueue) ==
  [fn |-> fn, iterationCount |-> 0,
   currentThinkingTasks |-> currentThinkingTasks,
   taskQueue |-> taskQueue,
   tasksExecutedInThisIteration |-> 0,
   newResultsForHistory |-> << >>]

EnterThinkingWithoutSteps(thinkingDirective) ==
  Frame("processThinkingDirective", << >>, NewTaskQueue)

\* processThinkingDirective(thinkingDirective, accumulatedUi) is entered
EnterThinking(thinkingDirective) ==
  Frame("processThinkingDirective", thinkingDirective.tasks, NewTaskQueue)

\* processRegularTasks(tasks, accumulatedUi) is entered
EnterRegular(tasks) ==
  Frame("processRegularTasks", << >>, addMany(NewTaskQueue, tasks))

Top(p) == Last(stack[p])

ThinkingLoopContinuesInclusive(f) ==
  Len(f.currentThinkingTasks) > 0 /\ f.iterationCount <= ThinkingMaxIterations

ThinkingLoopStopsOneEarly(f) ==
  Len(f.currentThinkingTasks) > 0 /\ f.iterationCount < ThinkingMaxIterations - 1

\* line 114: while (currentThinkingTasks.length > 0 && iterationCount < maxIterations)
ThinkingLoopContinues(f) ==
  Len(f.currentThinkingTasks) > 0 /\ f.iterationCount < ThinkingMaxIterations

RegularLoopContinuesInclusive(f) == f.iterationCount <= RegularMaxIterations

\* line 185: while (iterationCount < maxIterations)
RegularLoopContinues(f) == f.iterationCount < RegularMaxIterations

StallDetectedNever(f) == FALSE

\* line 248: the queue is not finished (line 214) and
\* tasksExecutedInThisIteration === 0
StallDetected(f) ==
  ~isFinished(f.taskQueue) /\ f.tasksExecutedInThisIteration = 0

ReplacePlanKeepsOldSteps(f, thinkingDirective) ==
  [f EXCEPT !.currentThinkingTasks = @ \o thinkingDirective.tasks]

ReplacePlanResetsCount(f, thinkingDirective) ==
  [f EXCEPT !.currentThinkingTasks = thinkingDirective.tasks,
            !.iterationCount = 0]

\* line 153: currentThinkingTasks = refinedParsed.thinkingDirective.tasks
ReplacePlan(f, thinkingDirective) ==
  [f EXCEPT !.currentThinkingTasks = thinkingDirective.tasks]

WithTop(p, frame) == [stack EXCEPT ![p] = [@ EXCEPT ![Len(@)] = frame]]

Pushed(p, frame) == [stack EXCEPT ![p] = Append(@, frame)]

HistoryPushLastOnly(entries) ==
  [heap EXCEPT ![history] =
     IF entries = << >> THEN @ ELSE Append(@, Last(entries))]

HistoryUnshift(entries) == [heap EXCEPT ![history] = entries \o @]

\* this.history.push(...entries): on the array this.history refers to now
HistoryPush(entries) == [heap EXCEPT ![history] = @ \o entries]

\* accumulatedUi.push(desc) unless an entry with desc.id is already there
RECURSIVE MergeUi(_, _)
MergeUi(acc, ui) ==
  IF ui = << >> THEN acc
  ELSE MergeUi(IF \E i \in DOMAIN acc : acc[i].id = Head(ui).id
               THEN acc ELSE Append(acc, Head(ui)),
               Tail(ui))

NoCall == [fn |-> "none", task |-> None]

GenerateCall == [fn |-> "generate", task |-> None]

RunTaskCall(task) == [fn |-> "runTask", task |-> Some(task)]

Warning(p, msg) == [by |-> p, msg |-> msg]

\* emitEvent(type, data): the event's type, the invocation that emitted it,
\* the id of the task or descriptor it is about ("" if none) and the text it
\* carries (empty if none)
Event(p, type, id, text) == [by |-> p, type |-> type, id |-> id, text |-> text]

ResponseEventsParsedFirst(p, llmResponse, parsed) ==
  << Event(p, "parsedDirectives", "", llmResponse),
     Event(p, "llmResponse", "", llmResponse) >>
    \o [i \in DOMAIN parsed.ui |-> Event(p, "uiDirective", parsed.ui[i].id, << >>)]

\* The events that follow a response: llmResponse, parsedDirectives and one
\* uiDirective per descriptor
ResponseEvents(p, llmResponse, parsed) ==
  << Event(p, "llmResponse", "", llmResponse),
     Event(p, "parsedDirectives", "", llmResponse) >>
    \o [i \in DOMAIN parsed.ui |-> Event(p, "uiDirective", parsed.ui[i].id, << >>)]

\* line 108 / line 154: emitEvent('thinkingDirective', ...)
ThinkingEvent(p) == Event(p, "thinkingDirective", "", << >>)

\* The error a failing generate call rejects with
GeneratorError == "generator failed"

\* The error TaskQueue.complete throws (task-queue.ts:104)
QueueError == "not found in pending tasks"

-----------------------------------------------------------------------------
(* Agent.chat and the two loops, one action per stretch of code between    *)
(* two awaits or loop heads.  The synchronous code of an invocation runs   *)
(* without interleaving: `cur` is the invocation that holds the thread,    *)
(* released at every await.                                                *)

ChatStartKeepsCallersArray(p, input) ==
  /\ pc[p] = "idle"
  /\ cur = 0
  /\ IF input.isString
     THEN /\ heap' = [heap EXCEPT ![p] = << UserEntry(input.content, p) >>]
          /\ history' = p
     ELSE /\ heap' = heap
          /\ history' = input.array
  /\ prompts' = [prompts EXCEPT ![p] = Append(@, buildPrompt(heap'[history']))]
  /\ call' = [call EXCEPT ![p] = GenerateCall]
  /\ pc' = [pc EXCEPT ![p] = "chat:generate"]
  /\ UNCHANGED << stack, accumulatedUi, returned, mounted, warnings, ran, llm,
                  cur, events, thrown, queueVars,
                  parserVars >>

\* chat(initialInput), lines 52-62: seed a new history array, build the first
\* prompt and call the generator.
ChatStart(p, input) ==
  /\ pc[p] = "idle"
  /\ cur = 0
  /\ LET seed == IF input.isString THEN << UserEntry(input.content, p) >>
                 ELSE Spread(heap[input.array])
     IN  /\ heap' = [heap EXCEPT ![p] = seed]
         /\ history' = p
         /\ prompts' = [prompts EXCEPT ![p] = Append(@, buildPrompt(seed))]
  /\ call' = [call EXCEPT ![p] = GenerateCall]
  /\ pc' = [pc EXCEPT ![p] = "chat:generate"]
  /\ UNCHANGED << stack, accumulatedUi, returned, mounted, warnings, ran, llm,
                  cur, events, thrown, queueVars,
                  parserVars >>

\* chat, lines 62-84: the first response arrives; it is appended, parsed, and
\* processThinkingDirective or processRegularTasks is entered.
ChatGenerateReturns(p, llmResponse) ==
  /\ pc[p] = "chat:generate"
  /\ cur = 0
  /\ llm.calls < MaxGenerateCalls
  /\ llm' = Answered(llmResponse)
  /\ heap' = HistoryPush(<< AssistantEntry(llmResponse, p) >>)
  /\ LET parsed == parseDirectives(llmResponse)
     IN  /\ accumulatedUi' = [accumulatedUi EXCEPT ![p] = @ \o parsed.ui]
         /\ IF IsSome(parsed.thinkingDirective)
            THEN /\ stack' = Pushed(p, EnterThinking(Get(parsed.thinkingDirective)))
                 /\ events' = events \o ResponseEvents(p, llmResponse, parsed)
                                 \o << ThinkingEvent(p) >>
                 /\ pc' = [pc EXCEPT ![p] = "thinking:loop"]
            ELSE /\ stack' = Pushed(p, EnterRegular(parsed.tasks))
                 /\ events' = events \o ResponseEvents(p, llmResponse, parsed)
                 /\ pc' = [pc EXCEPT ![p] = "regular:loop"]
  /\ call' = [call EXCEPT ![p] = NoCall]
  /\ cur' = p
  /\ UNCHANGED << history, returned, mounted, warnings, ran, prompts, thrown,
                  queueVars,
                  parserVars >>

\* processThinkingDirective, lines 114-121: the loop head; the next step is
\* shifted off the plan and handed to the Executor.
ThinkingLoop(p) ==
  /\ pc[p] = "thinking:loop"
  /\ cur = p
  /\ LET f == Top(p)
     IN  IF ThinkingLoopContinues(f)
         THEN LET task == Head(f.currentThinkingTasks)
              IN  /\ stack' = WithTop(p, [f EXCEPT
                               !.iterationCount = @ + 1,
                               !.currentThinkingTasks = Tail(@)])
                  /\ events' = Append(events, Event(p, "taskStart", task.id, << >>))
                  /\ ran' = [ran EXCEPT ![p] = Append(@, task)]
                  /\ call' = [call EXCEPT ![p] = RunTaskCall(task)]
                  /\ pc' = [pc EXCEPT ![p] = "thinking:runTask"]
                  /\ cur' = 0
         ELSE /\ pc' = [pc EXCEPT ![p] = "thinking:return"]
              /\ UNCHANGED << stack, ran, call, cur, events >>
  /\ UNCHANGED << heap, history, accumulatedUi, returned, mounted, warnings,
                  prompts, llm, thrown, queueVars,
                  parserVars >>

\* processThinkingDirective, lines 121-133: the step's result arrives, its
\* tool entry is appended and the generator is called on the new history.
ThinkingRunTaskReturns(p) ==
  /\ pc[p] = "thinking:runTask"
  /\ cur = 0
  /\ LET result == runTask(Get(call[p].task))
         pushed == HistoryPush(<< ToolEntry(result, p) >>)
     IN  /\ heap' = pushed
         /\ events' = Append(events, Event(p, "taskResult", result.id, << >>))
         /\ prompts' = [prompts EXCEPT ![p] = Append(@, buildPrompt(pushed[history]))]
  /\ call' = [call EXCEPT ![p] = GenerateCall]
  /\ pc' = [pc EXCEPT ![p] = "thinking:generate"]
  /\ UNCHANGED << history, stack, accumulatedUi, returned, mounted, warnings,
                  ran, llm, cur, thrown, queueVars,
                  parserVars >>

\* processThinkingDirective, lines 133-160: the response to a step arrives; a
\* new plan replaces the steps left, ordinary tasks enter
\* processRegularTasks, anything else goes on with the steps left.
ThinkingGenerateReturns(p, llmResponse) ==
  /\ pc[p] = "thinking:generate"
  /\ cur = 0
  /\ llm.calls < MaxGenerateCalls
  /\ llm' = Answered(llmResponse)
  /\ heap' = HistoryPush(<< AssistantEntry(llmResponse, p) >>)
  /\ LET refinedParsed == parseDirectives(llmResponse)
     IN  /\ accumulatedUi' = [accumulatedUi EXCEPT ![p] = MergeUi(@, refinedParsed.ui)]
         /\ IF IsSome(refinedParsed.thinkingDirective)
            THEN /\ stack' = WithTop(p, ReplacePlan(Top(p),
                                  Get(refinedParsed.thinkingDirective)))
                 /\ events' = events \o ResponseEvents(p, llmResponse, refinedParsed)
                                 \o << ThinkingEvent(p) >>
                 /\ pc' = [pc EXCEPT ![p] = "thinking:loop"]
            ELSE IF Len(refinedParsed.tasks) > 0
            THEN /\ stack' = Pushed(p, EnterRegular(refinedParsed.tasks))
                 /\ events' = events \o ResponseEvents(p, llmResponse, refinedParsed)
                 /\ pc' = [pc EXCEPT ![p] = "regular:loop"]
            ELSE /\ stack' = stack
                 /\ events' = events \o ResponseEvents(p, llmResponse, refinedParsed)
                 /\ pc' = [pc EXCEPT ![p] = "thinking:loop"]
  /\ call' = [call EXCEPT ![p] = NoCall]
  /\ cur' = p
  /\ UNCHANGED << history, returned, mounted, warnings, ran, prompts, thrown,
                  queueVars,
                  parserVars >>

\* processThinkingDirective, lines 163-166: after the loop (or after the
\* break that follows a nested processRegularTasks) the cap warning is
\* printed if the counter reached the cap, and the function returns; its
\* caller awaits it and goes on in a later job.
ThinkingReturn(p) ==
  /\ pc[p] = "thinking:return"
  /\ cur \in {0, p}
  /\ Top(p).fn = "processThinkingDirective"
  /\ warnings' = IF Top(p).iterationCount >= ThinkingMaxIterations
                 THEN Append(warnings, Warning(p, "thinking max iterations"))
                 ELSE warnings
  /\ stack' = [stack EXCEPT ![p] = SubSeq(@, 1, Len(@) - 1)]
  /\ pc' = [pc EXCEPT ![p] =
              IF Len(stack[p]) = 1 THEN "chat:end" ELSE "regular:return"]
  /\ cur' = 0
  /\ UNCHANGED << heap, history, accumulatedUi, call, returned, mounted, ran,
                  prompts, llm, events, thrown, queueVars,
                  parserVars >>

\* processRegularTasks, lines 185-188: the head of the pass loop.
RegularLoop(p) ==
  /\ pc[p] = "regular:loop"
  /\ cur = p
  /\ IF RegularLoopContinues(Top(p))
     THEN /\ stack' = WithTop(p, [Top(p) EXCEPT
                        !.iterationCount = @ + 1,
                        !.tasksExecutedInThisIteration = 0,
                        !.newResultsForHistory = << >>])
          /\ pc' = [pc EXCEPT ![p] = "regular:drain"]
     ELSE /\ stack' = stack
          /\ pc' = [pc EXCEPT ![p] = "regular:return"]
  /\ UNCHANGED << heap, history, accumulatedUi, call, returned, mounted,
                  warnings, ran, prompts, llm, cur, events, thrown, queueVars,
                  parserVars >>

RegularDrainStartsAllReady(p) ==
  /\ pc[p] = "regular:drain"
  /\ cur = p
  /\ LET q == Top(p).taskQueue
         task == nextReady(q)
         ready == Filter(q.pending, {i \in DOMAIN q.pending : isReady(q, q.pending[i])})
     IN  IF IsSome(task)
         THEN /\ events' = events \o [i \in DOMAIN ready |->
                                        Event(p, "taskStart", ready[i], << >>)]
              /\ ran' = [ran EXCEPT ![p] = @ \o [i \in DOMAIN ready |-> q.tasks[ready[i]]]]
              /\ call' = [call EXCEPT ![p] = RunTaskCall(Get(task))]
              /\ pc' = [pc EXCEPT ![p] = "regular:runTask"]
              /\ cur' = 0
         ELSE /\ pc' = [pc EXCEPT ![p] = "regular:observe"]
              /\ UNCHANGED << ran, call, cur, events >>
  /\ UNCHANGED << heap, history, stack, accumulatedUi, returned, mounted,
                  warnings, prompts, llm, thrown, queueVars,
                  parserVars >>

\* processRegularTasks, lines 190-194: the inner loop asks the queue for the
\* next ready task and hands it to the Executor, or leaves the inner loop.
RegularDrain(p) ==
  /\ pc[p] = "regular:drain"
  /\ cur = p
  /\ LET task == nextReady(Top(p).taskQueue)
     IN  IF IsSome(task)
         THEN /\ events' = Append(events, Event(p, "taskStart", Get(task).id, << >>))
              /\ ran' = [ran EXCEPT ![p] = Append(@, Get(task))]
              /\ call' = [call EXCEPT ![p] = RunTaskCall(Get(task))]
              /\ pc' = [pc EXCEPT ![p] = "regular:runTask"]
              /\ cur' = 0
         ELSE /\ pc' = [pc EXCEPT ![p] = "regular:observe"]
              /\ UNCHANGED << ran, call, cur, events >>
  /\ UNCHANGED << heap, history, stack, accumulatedUi, returned, mounted,
                  warnings, prompts, llm, thrown, queueVars,
                  parserVars >>

\* processRegularTasks, lines 194-200: the result arrives and is recorded in
\* the queue; complete throwing would reject chat.
RegularRunTaskReturns(p) ==
  /\ pc[p] = "regular:runTask"
  /\ cur = 0
  /\ LET result == runTask(Get(call[p].task))
         f == Top(p)
     IN  IF completeThrows(f.taskQueue, result)
         THEN /\ pc' = [pc EXCEPT ![p] = "rejected"]
              /\ thrown' = [thrown EXCEPT ![p] = Some(QueueError)]
              /\ UNCHANGED << stack, cur, events >>
         ELSE /\ stack' = WithTop(p, [f EXCEPT
                            !.taskQueue = complete(@, result),
                            !.newResultsForHistory = Append(@, result),
                            !.tasksExecutedInThisIteration = @ + 1])
              /\ events' = Append(events, Event(p, "taskResult", result.id, << >>))
              /\ pc' = [pc EXCEPT ![p] = "regular:drain"]
              /\ cur' = p
              /\ UNCHANGED thrown
  /\ call' = [call EXCEPT ![p] = NoCall]
  /\ UNCHANGED << heap, history, accumulatedUi, returned, mounted, warnings,
                  ran, prompts, llm, queueVars,
                  parserVars >>

\* processRegularTasks, lines 202-251: the pass's results are appended to the
\* history; a finished queue with new results calls the generator, a
\* finished queue without any ends the loop, an unfinished queue with no
\* task executed in the pass is a stall, and otherwise the next pass starts.
RegularObserve(p) ==
  /\ pc[p] = "regular:observe"
  /\ cur = p
  /\ LET f == Top(p)
         entries == [i \in DOMAIN f.newResultsForHistory |->
                       ToolEntry(f.newResultsForHistory[i], p)]
         pushed == HistoryPush(entries)
     IN  /\ heap' = pushed
         /\ IF isFinished(f.taskQueue)
            THEN IF Len(f.newResultsForHistory) > 0
                 THEN /\ prompts' = [prompts EXCEPT
                            ![p] = Append(@, buildPrompt(pushed[history]))]
                      /\ call' = [call EXCEPT ![p] = GenerateCall]
                      /\ pc' = [pc EXCEPT ![p] = "regular:generate"]
                      /\ cur' = 0
                      /\ UNCHANGED warnings
                 ELSE /\ pc' = [pc EXCEPT ![p] = "regular:return"]
                      /\ UNCHANGED << prompts, call, cur, warnings >>
            ELSE IF StallDetected(f)
                 THEN /\ warnings' = Append(warnings, Warning(p, "stalled"))
                      /\ pc' = [pc EXCEPT ![p] = "regular:return"]
                      /\ UNCHANGED << prompts, call, cur >>
                 ELSE /\ pc' = [pc EXCEPT ![p] = "regular:loop"]
                      /\ UNCHANGED << prompts, call, cur, warnings >>
  /\ UNCHANGED << history, stack, accumulatedUi, returned, mounted, ran, llm,
                  events, thrown, queueVars,
                  parserVars >>

\* processRegularTasks, lines 217-244: the observing response arrives; a plan
\* enters processThinkingDirective, new tasks are added to the same queue
\* and the next pass starts, anything else ends the loop.
RegularGenerateReturns(p, llmResponse) ==
  /\ pc[p] = "regular:generate"
  /\ cur = 0
  /\ llm.calls < MaxGenerateCalls
  /\ llm' = Answered(llmResponse)
  /\ heap' = HistoryPush(<< AssistantEntry(llmResponse, p) >>)
  /\ LET refinedParsed == parseDirectives(llmResponse)
     IN  /\ accumulatedUi' = [accumulatedUi EXCEPT ![p] = MergeUi(@, refinedParsed.ui)]
         /\ IF IsSome(refinedParsed.thinkingDirective)
            THEN /\ stack' = Pushed(p, EnterThinking(Get(refinedParsed.thinkingDirective)))
                 /\ events' = events \o ResponseEvents(p, llmResponse, refinedParsed)
                                 \o << ThinkingEvent(p) >>
                 /\ pc' = [pc EXCEPT ![p] = "thinking:loop"]
            ELSE IF Len(refinedParsed.tasks) > 0
            THEN /\ stack' = WithTop(p, [Top(p) EXCEPT
                               !.taskQueue = addMany(@, refinedParsed.tasks)])
                 /\ events' = events \o ResponseEvents(p, llmResponse, refinedParsed)
                 /\ pc' = [pc EXCEPT ![p] = "regular:loop"]
            ELSE /\ stack' = stack
                 /\ events' = events \o ResponseEvents(p, llmResponse, refinedParsed)
                 /\ pc' = [pc EXCEPT ![p] = "regular:return"]
  /\ call' = [call EXCEPT ![p] = NoCall]
  /\ cur' = p
  /\ UNCHANGED << history, returned, mounted, warnings, ran, prompts, thrown,
                  queueVars,
                  parserVars >>

RegularReturnResumesPlan(p) ==
  /\ pc[p] = "regular:return"
  /\ cur \in {0, p}
  /\ Top(p).fn = "processRegularTasks"
  /\ warnings' = IF Top(p).iterationCount >= RegularMaxIterations
                 THEN Append(warnings, Warning(p, "regular max iterations"))
                 ELSE warnings
  /\ stack' = [stack EXCEPT ![p] = SubSeq(@, 1, Len(@) - 1)]
  /\ pc' = [pc EXCEPT ![p] =
              IF Len(stack[p]) = 1 THEN "chat:end" ELSE "thinking:loop"]
  /\ cur' = IF Len(stack[p]) = 1 THEN 0 ELSE p
  /\ UNCHANGED << heap, history, accumulatedUi, call, returned, mounted, ran,
                  prompts, llm, events, thrown, queueVars,
                  parserVars >>

\* processRegularTasks, lines 254-257: the cap warning is printed if the
\* counter reached the cap, and the function returns to chat or to the
\* break after the call in processThinkingDirective.
RegularReturn(p) ==
  /\ pc[p] = "regular:return"
  /\ cur \in {0, p}
  /\ Top(p).fn = "processRegularTasks"
  /\ warnings' = IF Top(p).iterationCount >= RegularMaxIterations
                 THEN Append(warnings, Warning(p, "regular max iterations"))
                 ELSE warnings
  /\ stack' = [stack EXCEPT ![p] = SubSeq(@, 1, Len(@) - 1)]
  /\ pc' = [pc EXCEPT ![p] =
              IF Len(stack[p]) = 1 THEN "chat:end" ELSE "thinking:return"]
  /\ cur' = 0
  /\ UNCHANGED << heap, history, accumulatedUi, call, returned, mounted, ran,
                  prompts, llm, events, thrown, queueVars,
                  parserVars >>

\* chat, lines 86-94: after the awaited loop has returned, every accumulated
\* descriptor is mounted and the array this.history refers to is returned.
ChatEnd(p) ==
  /\ pc[p] = "chat:end"
  /\ cur = 0
  /\ mounted' = mounted \o accumulatedUi[p]
  /\ events' = Append(events, Event(p, "agentEnd", "", << >>))
  /\ returned' = [returned EXCEPT ![p] = Some(history)]
  /\ pc' = [pc EXCEPT ![p] = "done"]
  /\ cur' = 0
  /\ UNCHANGED << heap, history, stack, accumulatedUi, call, warnings, ran,
                  prompts, llm, thrown, queueVars,
                  parserVars >>

GenerateRejectsCaught(p) ==
  /\ pc[p] \in {"chat:generate", "thinking:generate", "regular:generate"}
  /\ cur = 0
  /\ MayReject
  /\ call' = [call EXCEPT ![p] = NoCall]
  /\ stack' = [stack EXCEPT ![p] = << >>]
  /\ llm' = [llm EXCEPT !.rejected = @ + 1]
  /\ pc' = [pc EXCEPT ![p] = "chat:end"]
  /\ UNCHANGED << heap, history, accumulatedUi, returned, mounted, warnings,
                  ran, prompts, cur, events, thrown, queueVars,
                  parserVars >>

\* lines 62, 133, 217: the awaited generate call rejects; nothing catches
\* the error in processThinkingDirective, processRegularTasks or chat, so
\* every awaiting frame is left and the promise of chat rejects with it.
GenerateRejects(p) ==
  /\ pc[p] \in {"chat:generate", "thinking:generate", "regular:generate"}
  /\ cur = 0
  /\ MayReject
  /\ call' = [call EXCEPT ![p] = NoCall]
  /\ llm' = [llm EXCEPT !.rejected = @ + 1]
  /\ thrown' = [thrown EXCEPT ![p] = Some(GeneratorError)]
  /\ pc' = [pc EXCEPT ![p] = "rejected"]
  /\ UNCHANGED << heap, history, stack, accumulatedUi, returned, mounted,
                  warnings, ran, prompts, cur, events, queueVars,
                  parserVars >>

\* A caller writes one more piece at the end of the raw text.
AppendSegment(segment) ==
  /\ extracted = None
  /\ Len(rawSegments) < MaxSegments
  /\ \A i \in DOMAIN rawSegments : ~rawSegments[i].serialized
  /\ rawSegments' = Append(rawSegments, segment)
  /\ rawInput' = rawInput \o segment.text
  /\ UNCHANGED << extracted, agentVars, queueVars >>

\* A caller serializes a request as the JSON payload of a Task block.
SerializeRequest(request) ==
  /\ extracted = None
  /\ rawSegments = << >>
  /\ LET block == Segment("Task", TRUE, request,
                          BlockText("Task", JSONstringify(request)), TRUE)
     IN  /\ rawSegments' = << block >>
         /\ rawInput' = block.text
  /\ UNCHANGED << extracted, agentVars, queueVars >>

\* parseDirectives(rawInput)
ParseRawInput ==
  /\ extracted = None
  /\ extracted' = Some(parseDirectivesSettles(rawInput))
  /\ UNCHANGED << rawSegments, rawInput, agentVars, queueVars >>

-----------------------------------------------------------------------------
(* Specifications.                                                         *)

InitAgent(modes) ==
  /\ heap = [r \in {0, CallersArray} \cup Invocations |->
               IF r = CallersArray THEN PriorHistory ELSE << >>]
  /\ history = 0
  /\ pc = [p \in Invocations |-> "idle"]
  /\ stack = [p \in Invocations |-> << >>]
  /\ accumulatedUi = [p \in Invocations |-> << >>]
  /\ call = [p \in Invocations |-> NoCall]
  /\ returned = [p \in Invocations |-> None]
  /\ mounted = << >>
  /\ warnings = << >>
  /\ ran = [p \in Invocations |-> << >>]
  /\ prompts = [p \in Invocations |-> << >>]
  /\ llm \in {[mode |-> m, calls |-> 0, said |-> 0, rejected |-> 0] : m \in modes}
  /\ cur = 0
  /\ events = << >>
  /\ thrown = [p \in Invocations |-> None]

InitQueue ==
  /\ queue = NewTaskQueue
  /\ lastCall = QueueCall("new", << >>, << >>, None, FALSE)

InitParser ==
  /\ rawSegments = << >>
  /\ rawInput = << >>
  /\ extracted = None

\* One step of chat invocation p.
Step(p) ==
  \/ \E input \in ChatInputs : ChatStart(p, input)
  \/ \E text \in Responses : ChatGenerateReturns(p, text)
  \/ ThinkingLoop(p)
  \/ ThinkingRunTaskReturns(p)
  \/ \E text \in Responses : ThinkingGenerateReturns(p, text)
  \/ ThinkingReturn(p)
  \/ RegularLoop(p)
  \/ RegularDrain(p)
  \/ RegularRunTaskReturns(p)
  \/ RegularObserve(p)
  \/ \E text \in Responses : RegularGenerateReturns(p, text)
  \/ RegularReturn(p)
  \/ ChatEnd(p)
  \/ GenerateRejects(p)

\* Spec: one chat invocation on a fresh Agent, with each generator.
Init ==
  /\ InitAgent({"free", "cyclic", "alwaysPlan", "alwaysTask", "alternate",
                "planThenText", "tasksThenText"})
  /\ InitQueue
  /\ InitParser

Next == Step(1)

Spec == Init /\ [][Next]_vars

\* SpecConcurrent: two chat invocations on one Agent, interleaved at their
\* awaits.
InitConcurrent == InitAgent({"concurrent"}) /\ InitQueue /\ InitParser

NextConcurrent == \E p \in Invocations : Step(p)

SpecConcurrent == InitConcurrent /\ [][NextConcurrent]_vars

\* SpecQueue: any sequence of calls on one TaskQueue.
InitQueueOnly == InitAgent({"free"}) /\ InitQueue /\ InitParser

NextQueue ==
  \/ \E task \in QueueTasks : QAdd(task)
  \/ \E tasks \in AddManyArguments : QAddMany(tasks)
  \/ QNextReady
  \/ \E result \in QueueResults : QComplete(result)

SpecQueue == InitQueueOnly /\ [][NextQueue]_vars

\* SpecExecutor: any sequence of runTask calls on one Executor.
NextExecutor == \E task \in ExecutorTasks : XRunTask(task)

SpecExecutor == InitQueueOnly /\ [][NextExecutor]_vars

\* SpecParser: a raw text is written piece by piece, or by serializing one
\* request, and parseDirectives is applied to it.
NextParser ==
  \/ \E segment \in Segments : AppendSegment(segment)
  \/ \E request \in ActionRequests : SerializeRequest(request)
  \/ ParseRawInput

SpecParser == InitQueueOnly /\ [][NextParser]_vars

-----------------------------------------------------------------------------
(* Properties.                                                             *)

\* The ids passed to Executor.runTask by invocation p, in order.
RanIds(p) == [i \in DOMAIN ran[p] |-> ran[p][i].id]

\* The history an invocation returned (the array behind the reference).
ReturnedHistory(p) == heap[Get(returned[p])]

\* C1: within one chat invocation no request id is passed to runTask more
\* than once, whatever the generator repeats and wherever it repeats it.
C1_NoIdRunTwice ==
  \A p \in Invocations : \A i, j \in DOMAIN ran[p] :
     i # j => ran[p][i].id # ran[p][j].id

\* The generation calls the two caps allow in one turn: the initial one, one
\* per plan step and one per batch pass.
TurnGenerateBound == 1 + ThinkingMaxIterations + RegularMaxIterations

\* C2: a chat invocation makes only a bounded number of generate/execute
\* cycles, also when the responses alternate between plans and tasks: it
\* never makes more generation calls than the step cap and the pass cap
\* allow together.
C2_BoundedCycles ==
  \A p \in Invocations : Len(prompts[p]) <= TurnGenerateBound

\* C3: nextReady() returns only a pending request all of whose dependsOn ids
\* have a recorded result.
C3_NextReadyOnlyResolved ==
  (lastCall.op = "nextReady" /\ IsSome(lastCall.ret)) =>
     LET task == Get(lastCall.ret)
     IN  /\ SetHas(queue.pending, task.id)
         /\ IsSome(task.dependsOn) =>
              \A i \in DOMAIN Get(task.dependsOn) :
                 HasOwnProperty(getResults(queue), Get(task.dependsOn)[i])

\* C4: no request is dispatched to runTask before every id of its dependsOn
\* has a result in that turn, in the batch loop and in plan steps alike.
C4_DependenciesBeforeDispatch ==
  \A p \in Invocations : \A k \in DOMAIN ran[p] :
     IsSome(ran[p][k].dependsOn) =>
        \A d \in DOMAIN Get(ran[p][k].dependsOn) :
           \E j \in 1..(k - 1) : ran[p][j].id = Get(ran[p][k].dependsOn)[d]

\* The tool lines of the results of the pass that frame f is in are in the
\* prompt.
PassResultsInPrompt(f, prompt) ==
  \A i \in DOMAIN f.newResultsForHistory :
     \E k \in DOMAIN prompt :
        /\ prompt[k].line = "Tool Observation"
        /\ prompt[k].id = f.newResultsForHistory[i].id

\* C5: a batch pass in which at least one action was executed ends with one
\* generation call whose prompt holds the pass's tool entries, before the
\* next pass starts or the loop ends.
C5_PassWithResultsIsObserved ==
  [][\A p \in Invocations :
       (/\ pc[p] = "regular:observe"
        /\ pc'[p] # "regular:observe"
        /\ Top(p).tasksExecutedInThisIteration > 0)
       => /\ pc'[p] = "regular:generate"
          /\ Len(prompts'[p]) = Len(prompts[p]) + 1
          /\ PassResultsInPrompt(Top(p), Last(prompts'[p]))]_vars

\* C6: the history an invocation returns holds, besides its seed, only
\* entries that this invocation appended.
C6_OwnHistory ==
  \A p \in Invocations :
     IsSome(returned[p]) =>
        \A i \in DOMAIN ReturnedHistory(p) :
           ReturnedHistory(p)[i].by \in {0, p}

\* A batch pass of p has just started with an unfinished queue in which no
\* request is ready.
StalledPass(p) ==
  /\ pc[p] = "regular:drain"
  /\ Top(p).tasksExecutedInThisIteration = 0
  /\ ~isFinished(Top(p).taskQueue)
  /\ ~IsSome(nextReady(Top(p).taskQueue))

\* The invocation is leaving its loops: a stalled pass being given up, or
\* frames returning towards chat's end.
Unwinding(p) ==
  \/ StalledPass(p)
  \/ /\ pc[p] = "regular:observe"
     /\ Top(p).tasksExecutedInThisIteration = 0
     /\ ~isFinished(Top(p).taskQueue)
  \/ pc[p] \in {"regular:return", "thinking:return", "chat:end"}

\* Nothing is executed, generated or appended in this step of p.
Quiet(p) ==
  /\ ran'[p] = ran[p]
  /\ prompts'[p] = prompts[p]
  /\ llm' = llm
  /\ heap' = heap
  /\ history' = history

C8_PlanCap ==
  llm.mode = "alwaysPlan" =>
     /\ Len(ran[1]) <= 10
     /\ Len(prompts[1]) <= 11
     /\ pc[1] # "rejected"
     /\ pc[1] # "done" => ENABLED Next
     /\ (pc[1] = "thinking:loop" /\ Len(ran[1]) = 10) =>
          Len(Top(1).currentThinkingTasks) = 1
     /\ \A i \in DOMAIN stack[1] : stack[1][i].fn = "processThinkingDirective"
     /\ pc[1] = "done" =>
          /\ Len(ran[1]) = 10
          /\ Len(prompts[1]) = 11
          /\ RanIds(1) = [i \in 1..10 |-> FreshId(i)]
          /\ IsSome(returned[1])

C8_Witness ==
  /\ llm.mode = "alwaysPlan"
  /\ pc[1] = "done"
  /\ Len(ran[1]) = 10
  /\ \E i \in DOMAIN warnings : warnings[i] = Warning(1, "thinking max iterations")

\* C9: a batch loop makes at most 5 passes; with a generator that answers
\* every call with one fresh task without dependencies, 5 actions run and 5
\* observing generation calls are made, chat returns, and the request of
\* the last response stays pending and is never run.
C9_PassCap ==
  /\ \A p \in Invocations : \A i \in DOMAIN stack[p] :
        stack[p][i].fn = "processRegularTasks" => stack[p][i].iterationCount <= 5
  /\ llm.mode = "alwaysTask" =>
       /\ Len(ran[1]) <= 5
       /\ Len(prompts[1]) <= 6
       /\ pc[1] # "rejected"
       /\ pc[1] # "done" => ENABLED Next
       /\ pc[1] = "regular:return" =>
            /\ Len(ran[1]) = 5
            /\ Len(prompts[1]) = 6
            /\ Top(1).taskQueue.pending = << FreshId(6) >>
       /\ pc[1] = "done" =>
            /\ RanIds(1) = [i \in 1..5 |-> FreshId(i)]
            /\ Len(prompts[1]) = 6
            /\ IsSome(returned[1])
            /\ Last(ReturnedHistory(1)) =
                 AssistantEntry(<< TaskBlock(FreshTask(6)) >>, 1)

C9_Witness ==
  /\ llm.mode = "alwaysTask"
  /\ pc[1] = "done"
  /\ Len(ran[1]) = 5
  /\ Len(prompts[1]) = 6

\* The definition the queue must hold for id after the call: the last
\* argument with that id.
LastArgument(tasks, id) ==
  tasks[CHOOSE i \in DOMAIN tasks :
          tasks[i].id = id /\ \A j \in DOMAIN tasks : tasks[j].id = id => j <= i]

\* C10: enqueuing a request whose id already has a result updates the
\* stored definition only: the results are unchanged, the id does not
\* become pending, nextReady() does not return it, and isFinished() keeps
\* its value.
C10_ReAddOnlyUpdatesDefinition ==
  [][(lastCall'.op \in {"add", "addMany"}) =>
       LET args == lastCall'.tasks
           done(i) == HasOwnProperty(getResults(queue), args[i].id)
       IN  /\ \A i \in DOMAIN args : done(i) =>
                /\ getResults(queue') = getResults(queue)
                /\ ~SetHas(queue'.pending, args[i].id)
                /\ queue'.tasks[args[i].id] = LastArgument(args, args[i].id)
                /\ IsSome(nextReady(queue')) =>
                      Get(nextReady(queue')).id # args[i].id
           /\ (args # << >> /\ \A i \in DOMAIN args : done(i)) =>
                /\ queue'.pending = queue.pending
                /\ isFinished(queue') = isFinished(queue)]_vars

C10_Witness ==
  /\ lastCall.op = "add"
  /\ lastCall.tasks = << Task("A", "callApi", "p2", Some(<< >>)) >>
  /\ HasOwnProperty(getResults(queue), "A")
  /\ queue.tasks["A"].params = "p2"
  /\ isFinished(queue)

\* C11: complete(result) throws exactly when result.id is not pending (an id
\* never enqueued, or one already completed), and a call that throws leaves
\* the queue as it was: same pending set, same recorded results (the earlier
\* result of a completed id included), same definitions.
C11_CompleteNonPendingThrows ==
  [][(lastCall'.op = "complete") =>
       LET result == lastCall'.results[1]
       IN  /\ lastCall'.threw = ~SetHas(queue.pending, result.id)
           /\ lastCall'.threw =>
                /\ queue'.pending = queue.pending
                /\ getResults(queue') = getResults(queue)
                /\ queue'.tasks = queue.tasks
           /\ ~lastCall'.threw =>
                /\ getResults(queue')[result.id] = result
                /\ ~SetHas(queue'.pending, result.id)]_vars

\* A was completed with status ok; completing it again with status error
\* threw and the earlier result is still the recorded one.
C11_Witness ==
  /\ lastCall.op = "complete"
  /\ lastCall.threw
  /\ lastCall.results = << TaskResult("A", "error", None, Some("boom")) >>
  /\ HasOwnProperty(getResults(queue), "A")
  /\ getResults(queue)["A"] = TaskResult("A", "ok", Some("data"), None)
  /\ ~SetHas(queue.pending, "A")

\* C12: runTask(request) never throws and yields one result with the
\* request's id: status error with a message when no handler is registered
\* for the kind, status error with the cause's text when the handler throws
\* or rejects, status ok with the handler's return value as output when it
\* succeeds.
C12_RunTaskNeverThrows ==
  (lastCall.op = "runTask") =>
     LET task == lastCall.tasks[1]
         result == lastCall.results[1]
     IN  /\ ~lastCall.threw
         /\ Len(lastCall.results) = 1
         /\ result.id = task.id
         /\ result.status \in {"ok", "error"}
         /\ (task.kind \notin Strategies) =>
               /\ result.status = "error"
               /\ IsSome(result.error) /\ Get(result.error) # ""
               /\ result.output = None
         /\ (task.kind \in {"failing", "rejecting"}) =>
               /\ result.status = "error"
               /\ result.error =
                    Some(IF task.kind = "failing" THEN "boom" ELSE "String exception")
               /\ result.output = None
         /\ (task.kind = "callApi") =>
               /\ result.status = "ok"
               /\ result.output = Some(StrategyOutput(task.kind, task.params))
               /\ result.error = None

\* runTask was called with a request whose handler rejects with an Error
\* and returned the error result of that request.
C12_Witness ==
  /\ lastCall.op = "runTask"
  /\ lastCall.tasks[1].kind = "failing"
  /\ lastCall.tasks[1].id = "task2"
  /\ lastCall.results = << TaskResult("task2", "error", None, Some("boom")) >>
  /\ ~lastCall.threw

\* The tool line of a failed result of request id is in the prompt.
FailedToolLineIn(prompt, result) ==
  \E k \in DOMAIN prompt :
     /\ prompt[k].line = "Tool Observation"
     /\ prompt[k].id = result.id
     /\ prompt[k].status = "error"
     /\ prompt[k].shown = result.error

\* C13: a failed action never aborts the turn: once chat has returned, every
\* action of the turn that ended with status error has its tool entry
\* (status error, with the error) in the returned history, and the
\* generator was called again with that entry in its prompt; chat is never
\* rejected after a failed action.
C13_FailedActionIsObserved ==
  \A k \in DOMAIN ran[1] :
     (runTask(ran[1][k]).status = "error") =>
        /\ pc[1] # "rejected"
        /\ (pc[1] = "done") =>
              /\ \E i \in DOMAIN ReturnedHistory(1) :
                    ReturnedHistory(1)[i] = ToolEntry(runTask(ran[1][k]), 1)
              /\ \E j \in DOMAIN prompts[1] :
                    FailedToolLineIn(prompts[1][j], runTask(ran[1][k]))

\* C14: when a generation call of the turn fails (the initial one, one after
\* a plan step or one observing a batch), chat fails with that error and the
\* turn ends there: the failing step executes nothing, calls nothing and
\* appends nothing, and afterwards the invocation takes no step at all, so
\* nothing is mounted, no agentEnd event is emitted and no history returned.
C14_GeneratorFailureEndsTheTurn ==
  /\ [](llm.rejected > 0 =>
          /\ pc[1] = "rejected"
          /\ thrown[1] = Some(GeneratorError)
          /\ ~ENABLED Next
          /\ call[1] = NoCall
          /\ mounted = << >>
          /\ returned[1] = None
          /\ \A i \in DOMAIN events : events[i].type # "agentEnd")
  /\ [][llm'.rejected > llm.rejected =>
          /\ pc[1] \in {"chat:generate", "thinking:generate", "regular:generate"}
          /\ ran' = ran
          /\ prompts' = prompts
          /\ heap' = heap
          /\ events' = events
          /\ mounted' = mounted]_vars

\* The generation call after a plan step, nested in a batch loop, failed
\* after two actions had run and with a descriptor waiting to be mounted.
C14_Witness ==
  /\ pc[1] = "rejected"
  /\ llm.rejected = 1
  /\ thrown[1] = Some(GeneratorError)
  /\ Len(stack[1]) = 2
  /\ Top(1).fn = "processThinkingDirective"
  /\ Len(ran[1]) = 2
  /\ accumulatedUi[1] # << >>

\* The queue with every recorded result turned into a result of status ok.
Okayed(q) ==
  [q EXCEPT !.taskResults =
     [id \in DOMAIN q.taskResults |->
        TaskResult(id, "ok", Some("data"), None)]]

\* Every dependsOn id of the pending request id has a recorded result.
DependenciesRecorded(q, id) ==
  IsSome(q.tasks[id].dependsOn) =>
     \A i \in DOMAIN Get(q.tasks[id].dependsOn) :
        HasOwnProperty(getResults(q), Get(q.tasks[id].dependsOn)[i])

\* C15: a dependency is satisfied by a recorded result whatever its status:
\* in every queue of a batch loop nextReady() returns what it would return
\* if every recorded result had status ok, and when the drain of a pass has
\* ended no pending request is left whose dependencies all have a result
\* (so a request is executed after the request it depends on has failed).
C15_FailedDependencyUnblocks ==
  \A i \in DOMAIN stack[1] :
     LET f == stack[1][i]
     IN  (f.fn = "processRegularTasks") =>
           /\ nextReady(f.taskQueue) = nextReady(Okayed(f.taskQueue))
           /\ (i = Len(stack[1]) /\ pc[1] = "regular:observe") =>
                 \A k \in DOMAIN f.taskQueue.pending :
                    ~DependenciesRecorded(f.taskQueue, f.taskQueue.pending[k])

\* F failed, then G, which depends on F, was executed in the same pass.
C15_Witness ==
  /\ pc[1] = "regular:observe"
  /\ RanIds(1) = << "F", "G" >>
  /\ getResults(Top(1).taskQueue)["F"].status = "error"
  /\ getResults(Top(1).taskQueue)["G"].status = "ok"
  /\ Top(1).iterationCount = 1

\* The descriptors of the responses of invocation p, in the order the
\* responses were appended to the history it returned.
RECURSIVE UiOfEntries(_, _)
UiOfEntries(entries, p) ==
  IF entries = << >> THEN << >>
  ELSE (IF Head(entries).role = "assistant" /\ Head(entries).by = p
        THEN parseDirectives(Head(entries).text).ui ELSE << >>)
       \o UiOfEntries(Tail(entries), p)

\* The first descriptor of each id, in first-seen order.
RECURSIVE FirstSeen(_, _)
FirstSeen(seen, ui) ==
  IF ui = << >> THEN seen
  ELSE FirstSeen(IF \E i \in DOMAIN seen : seen[i].id = Head(ui).id
                 THEN seen ELSE Append(seen, Head(ui)),
                 Tail(ui))

\* C16: when chat has returned, mount was called once per descriptor id of
\* the turn, on the first descriptor seen with that id, in first-seen
\* order; no id is mounted twice, wherever it was repeated (the first
\* response included).
C16_MountOncePerId ==
  (pc[1] = "done") =>
     /\ mounted = FirstSeen(<< >>, UiOfEntries(ReturnedHistory(1), 1))
     /\ \A i, j \in DOMAIN mounted : i # j => mounted[i].id # mounted[j].id

\* The entries chat seeded the history of invocation p with: those before
\* the first assistant entry of p.
SeedLen(entries, p) ==
  LET own == {i \in DOMAIN entries :
                entries[i].role = "assistant" /\ entries[i].by = p}
  IN  IF own = {} THEN Len(entries)
      ELSE (CHOOSE i \in own : \A j \in own : i <= j) - 1

\* The plan of the first response of the turn of invocation 1 (no steps if
\* that response carries no Plan).
FirstPlan ==
  LET entries == heap[history]
      parsed == parseDirectives(entries[SeedLen(entries, 1) + 1].text)
  IN  IF IsSome(parsed.thinkingDirective)
      THEN Get(parsed.thinkingDirective).tasks ELSE << >>

\* C17: a plan step executes one plan request, appends its tool entry and
\* makes one generation call on the history that ends with that entry
\* before the next step; a plan of n <= 10 steps followed by responses
\* without Plan and Task makes n + 1 generation calls, executes the n
\* requests in plan order, and leaves the history seed, assistant, then n
\* pairs (tool, assistant) in plan order.
C17_OneGenerationPerPlanStep ==
  /\ (pc[1] = "thinking:generate") =>
        /\ Last(heap[history]) = ToolEntry(runTask(Last(ran[1])), 1)
        /\ Last(prompts[1]) = buildPrompt(heap[history])
  /\ (pc[1] = "thinking:runTask") =>
        /\ Last(heap[history]).role = "assistant"
        /\ call[1] = RunTaskCall(Last(ran[1]))
  /\ (llm.mode = "planThenText" /\ pc[1] = "done") =>
        LET entries == ReturnedHistory(1)
            seed == SeedLen(entries, 1)
            n == Len(FirstPlan)
        IN  (n <= 10) =>
              /\ Len(prompts[1]) = n + 1
              /\ llm.calls = n + 1
              /\ ran[1] = FirstPlan
              /\ Len(entries) = seed + 1 + 2 * n
              /\ entries[seed + 1].role = "assistant"
              /\ \A k \in 1..n :
                    /\ entries[seed + 2 * k] = ToolEntry(runTask(FirstPlan[k]), 1)
                    /\ entries[seed + 2 * k + 1].role = "assistant"
                    /\ prompts[1][k + 1] =
                         buildPrompt(SubSeq(entries, 1, seed + 2 * k))

\* A plan of exactly 10 steps was stepped through to the end.
C17_Witness ==
  /\ llm.mode = "planThenText"
  /\ pc[1] = "done"
  /\ Len(FirstPlan) = 10
  /\ Len(ran[1]) = 10
  /\ Len(prompts[1]) = 11

\* The position in the history of the last response that carries a Plan.
LastPlanAt(entries) ==
  LET plans == {i \in DOMAIN entries :
                  /\ entries[i].role = "assistant"
                  /\ IsSome(parseDirectives(entries[i].text).thinkingDirective)}
  IN  CHOOSE i \in plans : \A j \in plans : j <= i

\* The tool entries appended after position at.
ToolsAfter(entries, at) ==
  Cardinality({i \in DOMAIN entries : i > at /\ entries[i].role = "tool"})

\* C18: a new Plan in the response to a plan step discards the steps left of
\* the old Plan: whenever a plan step is being executed, it is the step of
\* the most recent Plan of the turn that follows the steps of that Plan
\* already executed (the first one right after the Plan arrived), never a
\* step left over from an earlier Plan; and the response that brings the
\* new Plan leaves exactly the new Plan's requests as the steps to come.
C18_NewPlanDiscardsOldSteps ==
  /\ [](pc[1] = "thinking:runTask" =>
          LET entries == heap[history]
              at == LastPlanAt(entries)
              plan == Get(parseDirectives(entries[at].text).thinkingDirective).tasks
              stepped == ToolsAfter(entries, at)
          IN  /\ stepped < Len(plan)
              /\ Last(ran[1]) = plan[stepped + 1]
              /\ Top(1).currentThinkingTasks =
                   SubSeq(plan, stepped + 2, Len(plan)))
  /\ [][(pc[1] = "thinking:generate" /\ pc'[1] = "thinking:loop"
          /\ IsSome(parseDirectives(Last(heap'[history]).text).thinkingDirective))
         => /\ Top(1)'.currentThinkingTasks =
                 Get(parseDirectives(Last(heap'[history]).text).thinkingDirective).tasks
            /\ Top(1)'.iterationCount = Top(1).iterationCount
            /\ ran' = ran]_vars

\* The plan [A, B] was replaced, after its step A, by the plan [A, B] again:
\* the step executed next is A, the first of the new plan, not the B left
\* over.
C18_Witness ==
  /\ pc[1] = "thinking:runTask"
  /\ ran[1] = << tA, tA >>
  /\ Len(stack[1]) = 1
  /\ Top(1).currentThinkingTasks = << tB >>
  /\ Top(1).iterationCount = 2

\* C19: ordinary Task blocks (and no Plan) in the response to a plan step
\* hand the turn to the batch loop for good: the response opens a batch
\* loop on a queue holding exactly those requests, the plan frame below it
\* is left as it is and, when the batch loop returns, returns itself without
\* executing anything; so plan stepping is only ever active when no
\* response after the most recent Plan carried a Task block.
C19_TasksEndPlanStepping ==
  /\ [](pc[1] \in {"thinking:loop", "thinking:runTask", "thinking:generate"} =>
          LET entries == heap[history]
              at == LastPlanAt(entries)
          IN  \A i \in DOMAIN entries :
                 (i > at /\ entries[i].role = "assistant") =>
                    parseDirectives(entries[i].text).tasks = << >>)
  /\ [][
          /\ (pc[1] = "thinking:generate" /\ pc'[1] = "regular:loop") =>
            LET parsed == parseDirectives(Last(heap'[history]).text)
            IN  /\ ~IsSome(parsed.thinkingDirective)
                /\ parsed.tasks # << >>
                /\ stack'[1] = Append(stack[1], Top(1)')
                /\ Top(1)'.taskQueue = addMany(NewTaskQueue, parsed.tasks)
                /\ ran' = ran
          /\ (pc[1] = "regular:return" /\ Len(stack[1]) > 1 /\ pc'[1] # pc[1]) =>
                pc'[1] = "thinking:return"
          /\ (pc[1] = "thinking:return" /\ pc'[1] # pc[1]) =>
                /\ ran' = ran
                /\ prompts' = prompts
                /\ heap' = heap
                /\ Len(stack'[1]) = Len(stack[1]) - 1]_vars

\* After step A of the plan [A, B] the response asked for the task D: D was
\* run by the batch loop, B never, and chat has returned.
C19_Witness ==
  /\ pc[1] = "done"
  /\ llm.mode = "free"
  /\ FirstPlan = << tA, tB >>
  /\ ran[1] = << tA, tD >>
  /\ Len(prompts[1]) = 3

\* C20: in a batch loop no generation call is made while a pending request
\* is ready: the drain of a pass executes one request at a time, always the
\* one nextReady() returns, makes no generation call in between, and ends
\* only when no pending request has results for all its dependencies
\* (requests unblocked by results of the same pass included); whenever a
\* generation call is outstanding, no queue of the turn holds a pending
\* request whose dependencies all have results.
C20_DrainBeforeGenerate ==
  /\ [](call[1].fn = "generate" =>
          \A i \in DOMAIN stack[1] :
             (stack[1][i].fn = "processRegularTasks") =>
                /\ ~IsSome(nextReady(stack[1][i].taskQueue))
                /\ \A k \in DOMAIN stack[1][i].taskQueue.pending :
                      ~DependenciesRecorded(stack[1][i].taskQueue,
                                            stack[1][i].taskQueue.pending[k]))
  /\ [][
          /\ (pc[1] = "regular:drain" /\ pc'[1] = "regular:runTask") =>
                /\ IsSome(nextReady(Top(1).taskQueue))
                /\ ran'[1] = Append(ran[1], Get(nextReady(Top(1).taskQueue)))
                /\ call'[1] = RunTaskCall(Get(nextReady(Top(1).taskQueue)))
                /\ call[1] = NoCall
          /\ (pc[1] = "regular:drain" /\ pc'[1] = "regular:observe") =>
                \A k \in DOMAIN Top(1).taskQueue.pending :
                   ~DependenciesRecorded(Top(1).taskQueue,
                                         Top(1).taskQueue.pending[k])
          /\ (pc[1] \in {"regular:drain", "regular:runTask"}) =>
                /\ prompts' = prompts
                /\ llm' = llm
                /\ pc'[1] \in {"regular:drain", "regular:runTask",
                                "regular:observe", "rejected"}]_vars

\* B (which depends on A) was enqueued before A; A and then B ran in the
\* first pass, and only then is the observing generation call made.
C20_Witness ==
  /\ pc[1] = "regular:generate"
  /\ ran[1] = << tA, tB >>
  /\ Len(stack[1]) = 1
  /\ Top(1).iterationCount = 1
  /\ Len(prompts[1]) = 2

\* C21: the requests of an observing response of a batch loop (a response
\* without a Plan) are added to the queue the loop already has: the results
\* recorded so far stay, a request whose id has a result does not become
\* pending, every other request becomes pending with the definition given
\* and is ready if its dependsOn ids were completed in earlier passes; and
\* no pass of the loop executes an id that already has a result in the
\* loop's queue.
C21_ObservedRequestsJoinTheQueue ==
  [][
      /\ (pc[1] = "regular:generate" /\ pc'[1] = "regular:loop") =>
            LET parsed == parseDirectives(Last(heap'[history]).text)
                before == Top(1).taskQueue
                after == Top(1)'.taskQueue
            IN  /\ Len(stack'[1]) = Len(stack[1])
                /\ parsed.tasks # << >>
                /\ getResults(after) = getResults(before)
                /\ ran' = ran
                /\ \A i \in DOMAIN parsed.tasks :
                      LET id == parsed.tasks[i].id
                      IN  IF HasOwnProperty(getResults(before), id)
                          THEN ~SetHas(after.pending, id)
                          ELSE /\ SetHas(after.pending, id)
                               /\ after.tasks[id] = LastArgument(parsed.tasks, id)
                               /\ DependenciesRecorded(after, id) =>
                                     /\ isReady(after, id)
                                     /\ IsSome(nextReady(after))
      /\ (pc[1] = "regular:drain" /\ pc'[1] = "regular:runTask") =>
            ~HasOwnProperty(getResults(Top(1).taskQueue), Last(ran'[1]).id)
    ]_vars

\* A ran in pass 1; the observing response asked for B (which depends on A)
\* and for A again; pass 2 ran B only.
C21_Witness ==
  /\ pc[1] = "regular:observe"
  /\ Len(stack[1]) = 1
  /\ Top(1).iterationCount = 2
  /\ ran[1] = << tA, tB >>
  /\ heap[history][Len(heap[history])].role = "assistant"
  /\ Last(heap[history]).text = << TaskBlock(tB), TaskBlock(tA) >>
  /\ isFinished(Top(1).taskQueue)

\* The positions of the responses of invocation p in a history.
ResponsesAt(entries, p) ==
  {i \in DOMAIN entries : entries[i].role = "assistant" /\ entries[i].by = p}

\* The turn of invocation 1 started from a string, its first response
\* carries one Task and no Plan, and a second response exists and carries no
\* directive.
SingleTaskTurn ==
  LET entries == heap[history]
      at == ResponsesAt(entries, 1)
  IN  /\ pc[1] # "idle"
      /\ entries[1] = UserEntry("weather in Paris", 1)
      /\ Cardinality(at) >= 2
      /\ LET first == parseDirectives(entries[2].text)
             k == CHOOSE i \in at \ {2} : \A j \in at \ {2} : i <= j
             second == parseDirectives(entries[k].text)
         IN  /\ Len(first.tasks) = 1
             /\ ~IsSome(first.thinkingDirective)
             /\ second.tasks = << >>
             /\ second.ui = << >>
             /\ ~IsSome(second.thinkingDirective)

\* C22: for a string input, a first response with exactly one Task (and no
\* Plan) and a second response without directive, the turn makes exactly 2
\* generation calls and executes exactly that one request, the second
\* prompt has the line of its tool result, the history is user, assistant,
\* tool, assistant (length 4) from the second response on and when chat
\* returns it, and the queue is finished.
C22_SingleTaskTurn ==
  SingleTaskTurn =>
    LET entries == heap[history]
        task == parseDirectives(entries[2].text).tasks[1]
    IN  /\ Len(entries) = 4
        /\ [i \in 1..4 |-> entries[i].role]
             = << "user", "assistant", "tool", "assistant" >>
        /\ entries[3].id = task.id
        /\ ran[1] = << task >>
        /\ Len(prompts[1]) = 2
        /\ llm.calls = 2
        /\ Len(prompts[1][2]) = 3
        /\ prompts[1][2][3].line = "Tool Observation"
        /\ prompts[1][2][3].id = task.id
        /\ prompts[1][2][3].status = entries[3].status
        /\ pc[1] \in {"regular:return", "chat:end", "done"}
        /\ pc[1] = "regular:return" =>
              /\ Len(stack[1]) = 1
              /\ isFinished(Top(1).taskQueue)
        /\ pc[1] = "done" => returned[1] = Some(history)

\* chat has returned from the turn of "weather in Paris" whose first response
\* asked for A (kind callApi) and whose second response was plain text.
C22_Witness ==
  /\ SingleTaskTurn
  /\ pc[1] = "done"
  /\ ran[1] = << tA >>
  /\ heap[history][3] = ToolEntry(runTask(tA), 1)
  /\ heap[history][3].status = "ok"
  /\ heap[history][4].text = PlainText

\* The prompt line shows the history entry: its role and its payload.
LineShows(line, entry) ==
  CASE entry.role = "user" ->
         line.line = "User" /\ line.content = entry.content
    [] entry.role = "assistant" ->
         line.line = "Assistant" /\ line.text = entry.text
    [] entry.role = "tool" ->
         /\ line.line = "Tool Observation"
         /\ line.id = entry.id
         /\ line.status = entry.status
         /\ line.shown = (IF entry.status = "ok" THEN entry.output
                          ELSE entry.error)

\* C23: during one chat invocation the history is append-only (after chat
\* has seeded it, every step keeps the array and the entries it has, in
\* their order, and only adds entries at the end), and every generation
\* call's prompt has one line per entry of the whole history at that
\* moment, in order.
C23_HistoryAppendOnly ==
  [][
      /\ pc[1] # "idle" =>
            /\ history' = history
            /\ Len(heap'[history]) >= Len(heap[history])
            /\ SubSeq(heap'[history], 1, Len(heap[history])) = heap[history]
      /\ prompts'[1] # prompts[1] =>
            LET entries == heap'[history']
                prompt == Last(prompts'[1])
            IN  /\ pc'[1] \in {"chat:generate", "thinking:generate",
                                "regular:generate"}
                /\ call'[1] = GenerateCall
                /\ prompts'[1] = Append(prompts[1], prompt)
                /\ Len(prompt) = Len(entries)
                /\ \A i \in DOMAIN entries : LineShows(prompt[i], entries[i])
    ]_vars

\* The third generation call of a turn is outstanding; its prompt was built
\* from a history holding two responses and a failed and an ok tool entry.
C23_Witness ==
  /\ pc[1] \in {"thinking:generate", "regular:generate"}
  /\ Len(prompts[1]) = 3
  /\ Len(Last(prompts[1])) = Len(heap[history])
  /\ \E i, j \in DOMAIN heap[history] :
        /\ heap[history][i].role = "tool" /\ heap[history][i].status = "error"
        /\ heap[history][j].role = "tool" /\ heap[history][j].status = "ok"

\* chat was called with the caller's array of prior entries.
CalledWithPriorHistory ==
  /\ pc[1] # "idle"
  /\ Len(heap[history]) >= 1
  /\ heap[history][1] = PriorHistory[1]

\* C24: when chat is called with a prior history sequence, the history of
\* the turn (and the one returned) starts with exactly those entries in
\* the same order, everything after them is an entry of the new turn, the
\* first prompt has a line for each of them, and the caller's array keeps
\* its length and entries (it is another array than the returned one).
C24_PriorHistoryKept ==
  /\ heap[CallersArray] = PriorHistory
  /\ history # CallersArray
  /\ CalledWithPriorHistory =>
        LET entries == heap[history]
            n == Len(PriorHistory)
        IN  /\ Len(entries) >= n
            /\ SubSeq(entries, 1, n) = PriorHistory
            /\ \A i \in DOMAIN entries : i > n => entries[i].by = 1
            /\ Len(prompts[1][1]) = n
            /\ \A i \in 1..n : LineShows(prompts[1][1][i], PriorHistory[i])
            /\ pc[1] = "done" =>
                  /\ returned[1] = Some(history)
                  /\ Len(ReturnedHistory(1)) > n
                  /\ ReturnedHistory(1)[n + 1].role = "assistant"

\* chat, called with the prior entries, has returned after a response asking
\* for A and a plain answer: the returned history is the two prior entries
\* followed by the assistant, tool and assistant entries of the turn.
C24_Witness ==
  /\ CalledWithPriorHistory
  /\ pc[1] = "done"
  /\ Len(ReturnedHistory(1)) = Len(PriorHistory) + 3
  /\ ReturnedHistory(1)[Len(PriorHistory) + 2] = ToolEntry(runTask(tA), 1)
  /\ heap[CallersArray] = PriorHistory

\* The pending request enqueued earliest among those whose dependsOn ids all
\* have a recorded result, if there is one.
EarliestReady(q) ==
  LET ready == {i \in DOMAIN q.pending : DependenciesRecorded(q, q.pending[i])}
  IN  IF ready = {} THEN None
      ELSE Some(q.tasks[q.pending[CHOOSE i \in ready : \A j \in ready : i <= j]])

\* C25: nextReady() returns the pending request enqueued earliest among
\* those whose dependencies all have results, and undefined when no pending
\* request is ready (an empty queue included).
C25_NextReadyEarliestReady ==
  lastCall.op = "nextReady" => lastCall.ret = EarliestReady(queue)

\* The external calls invocation 1 has started: runTask and generate calls.
Started == Len(ran[1]) + Len(prompts[1])

\* The external calls of invocation 1 that have returned or rejected.
Settled ==
  Cardinality({i \in DOMAIN events : events[i].type = "taskResult"})
    + llm.calls + llm.rejected
    + (IF thrown[1] = Some(QueueError) THEN 1 ELSE 0)

\* C26: within one chat invocation at most one external call (generation
\* call or action) is outstanding at any time, and a call is started only
\* when no call is outstanding or in the step in which the previous one
\* returns, one call at a time.
C26_OneCallOutstanding ==
  /\ [](/\ Settled <= Started
        /\ Started <= Settled + 1
        /\ (call[1] = NoCall) <=> (Started = Settled))
  /\ [][Started' # Started =>
          /\ Started' = Started + 1
          /\ Started = Settled \/ Settled' = Settled + 1
          /\ call'[1] # NoCall
          /\ (call'[1].fn = "generate") <=> (prompts'[1] # prompts[1])
          /\ (call'[1].fn = "runTask") <=>
                (ran'[1] # ran[1] /\ call'[1].task = Some(Last(ran'[1])))
       ]_vars

\* Two requests of one batch are ready; the first is being executed and the
\* second has not been started.
C26_Witness ==
  /\ pc[1] = "regular:runTask"
  /\ call[1] = RunTaskCall(tA)
  /\ ran[1] = << tA >>
  /\ SetHas(Top(1).taskQueue.pending, "F")
  /\ isReady(Top(1).taskQueue, "F")
  /\ Started = Settled + 1

\* The payload values of the well-formed blocks of a kind among the pieces
\* of a text, left to right.
PayloadsOf(segs, tag) ==
  LET blocks == Filter(segs, {i \in DOMAIN segs :
                                segs[i].tag = tag /\ segs[i].wellFormed})
  IN  [i \in DOMAIN blocks |-> blocks[i].value]

\* The payload of the last well-formed Thinking block among the pieces.
LastPlanOf(segs) ==
  LET plans == PayloadsOf(segs, "Thinking")
  IN  IF plans = << >> THEN None ELSE Some(Last(plans))

\* parseDirectives has been applied to a text written piece by piece.
ExtractedFromPieces ==
  /\ IsSome(extracted)
  /\ \A i \in DOMAIN rawSegments : ~rawSegments[i].serialized

\* C27: for a text of well-formed Task blocks mixed with prose and other
\* blocks, extraction returns exactly one request per well-formed Task
\* block, in the order of the blocks, each equal to the JSON value of its
\* payload, and rawText is the input text.
C27_OneRequestPerTaskBlock ==
  ExtractedFromPieces =>
    /\ IsSome(Get(extracted).returned)
    /\ Get(Get(extracted).returned).tasks = PayloadsOf(rawSegments, "Task")
    /\ Get(Get(extracted).returned).rawText = rawInput

\* Some piece is a block whose payload is not valid JSON or lacks the
\* required fields of its kind.
HasMalformedBlock ==
  \E i \in DOMAIN rawSegments :
     rawSegments[i].tag # "" /\ ~rawSegments[i].wellFormed

\* C28: a block whose payload is not valid JSON or lacks its required
\* fields contributes nothing, extraction does not throw, and the valid
\* blocks before and after it are extracted: the requests, the display
\* requests and the plan are those of the well-formed blocks of the text.
C28_MalformedBlockIsDropped ==
  (ExtractedFromPieces /\ HasMalformedBlock) =>
    /\ Get(extracted).thrown = None
    /\ IsSome(Get(extracted).returned)
    /\ LET message == Get(Get(extracted).returned)
       IN  /\ message.tasks = PayloadsOf(rawSegments, "Task")
           /\ message.ui = PayloadsOf(rawSegments, "Ui")
           /\ message.thinkingDirective = LastPlanOf(rawSegments)

\* C29: extraction returns at most one Plan, the one of the last valid
\* Thinking block of the text (none when the text has no valid Thinking
\* block); an invalid Thinking block after it does not erase it.
C29_LastValidPlanWins ==
  (ExtractedFromPieces /\ IsSome(Get(extracted).returned)) =>
    Get(Get(extracted).returned).thinkingDirective = LastPlanOf(rawSegments)

\* C30: a request (non-empty id and kind) serialized as the JSON payload
\* of a Task block and extracted again is one request equal to the
\* original in id, kind, params and dependsOn, with the types and the
\* nesting of the values and the order of dependsOn.
C30_RequestRoundTrip ==
  (IsSome(extracted) /\ rawSegments # << >> /\ rawSegments[1].serialized) =>
    /\ Get(extracted).thrown = None
    /\ IsSome(Get(extracted).returned)
    /\ LET message == Get(Get(extracted).returned)
           request == rawSegments[1].value
       IN  /\ Len(message.tasks) = 1
           /\ \A key \in {"id", "kind", "params", "dependsOn"} :
                 GetProperty(message.tasks[1], key) = GetProperty(request, key)
           /\ message.ui = << >>
           /\ message.thinkingDirective = None

\* The request t2, with params {"a":{"b":[1,"1"]}} and dependsOn
\* ["t1","t0"], was serialized and extracted again.
C30_Witness ==
  /\ IsSome(extracted)
  /\ Len(rawSegments) = 1
  /\ rawSegments[1].serialized
  /\ rawSegments[1].value = mockT2
  /\ IsSome(Get(extracted).returned)
  /\ Len(Get(Get(extracted).returned).tasks) = 1
  /\ GetProperty(Get(Get(extracted).returned).tasks[1], "dependsOn")
       = JArray(<< JString("t1"), JString("t0") >>)

\* The ids the queue knows as pending or as having a result.
KnownIds(q) == Range(q.pending) \cup DOMAIN getResults(q)

\* C31: after any sequence of add, addMany and complete calls (failing
\* complete calls included) the pending set and the set of ids with a
\* result are disjoint, and their union is the set of ids ever enqueued
\* (it is empty at first, grows by the ids of each add and addMany and by
\* nothing else); isFinished() is true exactly when every such id has a
\* result.
C31_PendingAndResultsPartition ==
  /\ [](/\ Range(queue.pending) \cap DOMAIN getResults(queue) = {}
        /\ KnownIds(queue) = DOMAIN queue.tasks
        /\ isFinished(queue) <=> (KnownIds(queue) = DOMAIN getResults(queue)))
  /\ [][KnownIds(queue') =
          KnownIds(queue) \cup
            (IF lastCall'.op \in {"add", "addMany"}
             THEN {lastCall'.tasks[i].id : i \in DOMAIN lastCall'.tasks}
             ELSE {})]_vars

\* A has a result, B is pending, and a complete call for an id that is not
\* pending has just failed.
C31_Witness ==
  /\ lastCall.op = "complete"
  /\ lastCall.threw
  /\ HasOwnProperty(getResults(queue), "A")
  /\ SetHas(queue.pending, "B")
  /\ ~isFinished(queue)

\* C32: during a chat invocation, for every generator and handler
\* behaviour, complete() is called only with the id of a request that is
\* pending in the queue of the loop, so chat never rejects with the
\* queue's error: each result that arrives in the batch loop carries the
\* id of the request handed to runTask, that id is pending, and the result
\* is recorded.
C32_CompleteOnlyPending ==
  /\ [](thrown[1] # Some(QueueError))
  /\ [][(pc[1] = "regular:runTask" /\ pc'[1] # "regular:runTask") =>
          LET result == runTask(Get(call[1].task))
          IN  /\ result.id = Last(ran[1]).id
              /\ SetHas(Top(1).taskQueue.pending, result.id)
              /\ ~completeThrows(Top(1).taskQueue, result)
              /\ pc'[1] = "regular:drain"
              /\ getResults(Top(1)'.taskQueue)[result.id] = result
              /\ ~SetHas(Top(1)'.taskQueue.pending, result.id)
       ]_vars

\* The handler of F rejected; the error result was recorded by complete and
\* the drain goes on.
C32_Witness ==
  /\ pc[1] = "regular:drain"
  /\ ran[1] # << >>
  /\ Last(ran[1]) = tF
  /\ HasOwnProperty(getResults(Top(1).taskQueue), "F")
  /\ getResults(Top(1).taskQueue)["F"].status = "error"
  /\ thrown[1] = None

\* The entries of the turn of invocation p: what follows the seed.
TurnEntries(entries, p) ==
  SubSeq(entries, SeedLen(entries, p) + 1, Len(entries))

\* The tool entries among the given entries, in their order.
ToolEntries(entries) ==
  Filter(entries, {i \in DOMAIN entries : entries[i].role = "tool"})

\* The tool entries of the actions invocation p has executed, in execution
\* order.
ExecutedEntries(p) == [k \in DOMAIN ran[p] |-> ToolEntry(runTask(ran[p][k]), p)]

\* The requests a response asks for: its Task requests and its plan steps.
RequestedIn(text) ==
  LET parsed == parseDirectives(text)
  IN  Range(parsed.tasks) \cup
        (IF IsSome(parsed.thinkingDirective)
         THEN Range(Get(parsed.thinkingDirective).tasks) ELSE {})

\* C33: when chat returns, the history holds after the seed entries exactly
\* one assistant entry per generation call made and one tool entry per
\* action executed, the tool entries in execution order and each after an
\* assistant entry that requested it; whenever a generation call is made,
\* the tool entry of every action executed so far is in the history; and at
\* no time is there a tool entry of a request that was not dispatched.
C33_HistoryMatchesCalls ==
  /\ (pc[1] # "idle") =>
        LET turn == TurnEntries(heap[history], 1)
            tools == ToolEntries(turn)
        IN  /\ Len(tools) <= Len(ran[1])
            /\ tools = SubSeq(ExecutedEntries(1), 1, Len(tools))
            /\ (call[1] = GenerateCall) => tools = ExecutedEntries(1)
  /\ IsSome(returned[1]) =>
        LET turn == TurnEntries(ReturnedHistory(1), 1)
            at == {i \in DOMAIN turn : turn[i].role = "assistant"}
        IN  /\ \A i \in DOMAIN turn : turn[i].role \in {"assistant", "tool"}
            /\ Cardinality(at) = Len(prompts[1])
            /\ Cardinality(at) = llm.calls
            /\ ToolEntries(turn) = ExecutedEntries(1)
            /\ \A i \in DOMAIN turn \ at :
                  LET k == Cardinality({j \in 1..i : turn[j].role = "tool"})
                  IN  \E j \in at : j < i /\ ran[1][k] \in RequestedIn(turn[j].text)

\* chat has returned after at least three actions and three generation
\* calls, two of the actions executed in one pass (adjacent tool entries).
C33_Witness ==
  /\ IsSome(returned[1])
  /\ Len(ran[1]) >= 3
  /\ Len(prompts[1]) >= 3
  /\ \E i \in DOMAIN ReturnedHistory(1) :
        /\ i + 1 \in DOMAIN ReturnedHistory(1)
        /\ ReturnedHistory(1)[i].role = "tool"
        /\ ReturnedHistory(1)[i + 1].role = "tool"

\* The pending ids that lie on a dependency cycle of pending requests: an
\* id that is reached from itself along dependsOn.
CycleMembers(q) ==
  LET ids == Range(q.pending)
      edge(a, b) == IsSome(q.tasks[a].dependsOn) /\ b \in Range(Get(q.tasks[a].dependsOn))
      step(R) == R \cup {ab \in ids \X ids :
                           \E c \in ids : << ab[1], c >> \in R /\ edge(c, ab[2])}
      direct == {ab \in ids \X ids : edge(ab[1], ab[2])}
      closed[n \in 0..Cardinality(ids)] == IF n = 0 THEN direct ELSE step(closed[n - 1])
  IN  {a \in ids : << a, a >> \in closed[Cardinality(ids)]}

\* The batch loop of invocation p runs with a dependency cycle among its
\* pending requests.
CyclePending(p) ==
  /\ stack[p] # << >>
  /\ Top(p).fn = "processRegularTasks"
  /\ CycleMembers(Top(p).taskQueue) # {}

\* C34: while the pending requests of a batch contain a dependency cycle
\* (a request that depends on its own id included), no member of the cycle
\* is executed and the members stay pending, no generation call is made, a
\* pass that executes nothing ends the loop with the stall warning, and
\* chat goes on to its normal return (it is neither rejected nor stuck).
C34_CycleStalls ==
  /\ [](CyclePending(1) => (pc[1] # "rejected" /\ ENABLED Step(1)))
  /\ [][CyclePending(1) =>
          /\ ran'[1] # ran[1] =>
                Last(ran'[1]).id \notin CycleMembers(Top(1).taskQueue)
          /\ prompts'[1] = prompts[1]
          /\ Len(stack'[1]) = Len(stack[1]) =>
                CycleMembers(Top(1)'.taskQueue) = CycleMembers(Top(1).taskQueue)
          /\ (pc[1] = "regular:observe" /\ Top(1).tasksExecutedInThisIteration = 0) =>
                /\ pc'[1] = "regular:return"
                /\ warnings' = Append(warnings, Warning(1, "stalled"))
       ]_vars

\* The most recent response of the turn of invocation 1 (plain text when
\* there is none yet).
LastResponse(entries) ==
  LET at == ResponsesAt(entries, 1)
  IN  IF at = {} THEN PlainText
      ELSE entries[CHOOSE i \in at : \A j \in at : j <= i].text

\* The text carries a Plan together with ordinary Task blocks.
PlanWithTasks(text) ==
  /\ IsSome(parseDirectives(text).thinkingDirective)
  /\ parseDirectives(text).tasks # << >>

\* C35: when a response carries a Plan (also one without steps) together
\* with ordinary Task blocks, only the Plan is acted on: the response
\* starts or replaces plan stepping with the Plan's steps and executes
\* nothing itself; until the next response no queue of the turn gains or
\* loses a request, and the only request executed is the first step of that
\* Plan, by plan stepping.
C35_PlanOverridesTasks ==
  [][PlanWithTasks(LastResponse(heap'[history'])) =>
       LET plan == Get(parseDirectives(LastResponse(heap'[history'])).thinkingDirective).tasks
       IN  /\ \A i \in DOMAIN stack'[1] :
                 (stack'[1][i].fn = "processRegularTasks") =>
                    /\ i \in DOMAIN stack[1]
                    /\ stack'[1][i].taskQueue = stack[1][i].taskQueue
           /\ llm'.calls # llm.calls =>
                 /\ pc'[1] = "thinking:loop"
                 /\ Top(1)'.fn = "processThinkingDirective"
                 /\ Top(1)'.currentThinkingTasks = plan
                 /\ ran' = ran
           /\ ran'[1] # ran[1] =>
                 /\ pc[1] = "thinking:loop"
                 /\ plan # << >>
                 /\ ran'[1] = Append(ran[1], plan[1])
    ]_vars

\* The responses were a Plan with the step B next to a Task block for A,
\* then a Plan without steps next to a Task block for A: chat has returned,
\* B was executed and A never.
C35_Witness ==
  /\ pc[1] = "done"
  /\ llm.mode = "free"
  /\ ran[1] = << tB >>
  /\ Len(prompts[1]) = 2
  /\ PlanWithTasks(LastResponse(ReturnedHistory(1)))
  /\ FirstPlan = << tB >>
  /\ parseDirectives(ReturnedHistory(1)[SeedLen(ReturnedHistory(1), 1) + 1].text).tasks
        = << tA >>

\* C36: enqueuing a request whose id is pending replaces its stored
\* definition (kind, params, dependsOn) by the one enqueued last and leaves
\* the id where it is in the insertion order, once: every add keeps the
\* pending ids that were there as the first pending ids, in their order, no
\* id is ever pending twice, and nextReady() returns the stored (most
\* recently enqueued) definition of the first pending id that is ready by
\* that definition.
C36_ReAddPendingKeepsPosition ==
  /\ [](/\ \A i, j \in DOMAIN queue.pending :
              queue.pending[i] = queue.pending[j] => i = j
        /\ lastCall.op = "nextReady" /\ IsSome(lastCall.ret) =>
              LET id == Get(lastCall.ret).id
                  at == CHOOSE i \in DOMAIN queue.pending : queue.pending[i] = id
              IN  /\ SetHas(queue.pending, id)
                  /\ Get(lastCall.ret) = queue.tasks[id]
                  /\ \A j \in 1..(at - 1) : ~isReady(queue, queue.pending[j]))
  /\ [][(lastCall'.op \in {"add", "addMany"}) =>
          LET args == lastCall'.tasks
          IN  /\ SubSeq(queue'.pending, 1, Len(queue.pending)) = queue.pending
              /\ \A i \in DOMAIN args :
                    /\ queue'.tasks[args[i].id] = LastArgument(args, args[i].id)
                    /\ SetHas(queue.pending, args[i].id) =>
                          /\ SetHas(queue'.pending, args[i].id)
                          /\ isReady(queue', args[i].id) <=>
                                (~IsSome(LastArgument(args, args[i].id).dependsOn)
                                 \/ \A k \in DOMAIN Get(LastArgument(args, args[i].id).dependsOn) :
                                       In(Get(LastArgument(args, args[i].id).dependsOn)[k],
                                          getResults(queue)))
       ]_vars

\* B and then E were pending when B was enqueued again, without dependsOn:
\* B is still pending before E, once, and nextReady() would return its new
\* definition.
C36_Witness ==
  /\ lastCall.op = "add"
  /\ lastCall.tasks = << Task("B", "other", "p2", None) >>
  /\ queue.pending = << "B", "E" >>
  /\ getResults(queue) = EmptyObject
  /\ nextReady(queue) = Some(Task("B", "other", "p2", None))

\* C39: nextReady() does not change the queue: the call leaves the pending
\* ids and their order, the stored definitions, the results and
\* isFinished() as they were, and right after it (and after any number of
\* further nextReady() calls) another call returns the same request.
C39_NextReadyIsPure ==
  /\ [](lastCall.op = "nextReady" => nextReady(queue) = lastCall.ret)
  /\ [][(lastCall'.op = "nextReady") =>
          /\ queue'.pending = queue.pending
          /\ queue'.tasks = queue.tasks
          /\ getResults(queue') = getResults(queue)
          /\ isFinished(queue') = isFinished(queue)
          /\ lastCall'.ret = nextReady(queue)
          /\ lastCall.op = "nextReady" => lastCall'.ret = lastCall.ret
       ]_vars

\* nextReady() returned B (A has failed, C waits for B): B and C are still
\* pending and the result of A is the only one.
C39_Witness ==
  /\ lastCall.op = "nextReady"
  /\ lastCall.ret = Some(Task("B", "callApi", "p1", Some(<< "A" >>)))
  /\ queue.pending = << "B", "C" >>
  /\ DOMAIN getResults(queue) = {"A"}
  /\ getResults(queue)["A"].status = "error"
  /\ ~isFinished(queue)

\* The plan loop of the frame stopped with steps of its plan left.
PlanCutShort(f) == f.currentThinkingTasks # << >>

\* The batch loop of the frame stopped at its loop head (line 185): every
\* break leaves the loop either with a finished queue (lines 214-247) or in
\* a pass that executed nothing (lines 248-251).
BatchCutShort(f) ==
  ~isFinished(f.taskQueue) /\ f.tasksExecutedInThisIteration > 0

\* C37: the cap warnings are printed only when a cap cut work short: the
\* plan warning only when plan stepping stopped with steps of the plan not
\* executed, the batch warning only when the batch loop stopped at the pass
\* limit and not because the turn had nothing left to do (so a plan of
\* exactly 10 steps and a batch that ends in its 5th pass print none).
C37_WarningsOnlyWhenCutShort ==
  [][/\ (pc[1] = "thinking:return" /\ warnings' # warnings) => PlanCutShort(Top(1))
     /\ (pc[1] = "regular:return" /\ warnings' # warnings) => BatchCutShort(Top(1))
    ]_vars

\* The taskStart and taskResult events emitted so far, in their order.
TaskEvents ==
  Filter(events, {i \in DOMAIN events :
                    events[i].type \in {"taskStart", "taskResult"}})

\* The positions of the agentEnd events.
AgentEndAt == {i \in DOMAIN events : events[i].type = "agentEnd"}

\* C38: the events of a chat invocation are ordered: among the task events
\* every taskResult comes right after the taskStart of the same request id;
\* every parsedDirectives event comes right after the llmResponse event of
\* the same text; agentEnd is emitted at most once, exactly once when chat
\* has returned, as the last event, when every accumulated descriptor has
\* been mounted, and nothing is mounted or emitted after it.
C38_EventOrder ==
  /\ [](/\ \A i \in DOMAIN TaskEvents :
              TaskEvents[i].type = "taskResult" =>
                 /\ i > 1
                 /\ TaskEvents[i - 1].type = "taskStart"
                 /\ TaskEvents[i - 1].id = TaskEvents[i].id
        /\ \A i \in DOMAIN events :
              events[i].type = "parsedDirectives" =>
                 /\ i > 1
                 /\ events[i - 1].type = "llmResponse"
                 /\ events[i - 1].text = events[i].text
        /\ Cardinality(AgentEndAt) <= 1
        /\ (pc[1] = "done") <=> (AgentEndAt # {})
        /\ AgentEndAt # {} =>
              /\ AgentEndAt = {Len(events)}
              /\ mounted = accumulatedUi[1]
              /\ IsSome(returned[1]))
  /\ [][AgentEndAt # {} => (events' = events /\ mounted' = mounted)]_vars

\* chat has returned after two actions of one pass and a response with a
\* descriptor: the descriptor is mounted and agentEnd is the last event.
C38_Witness ==
  /\ pc[1] = "done"
  /\ Len(TaskEvents) = 4
  /\ TaskEvents[2].id # TaskEvents[4].id
  /\ mounted # << >>
  /\ Last(events).type = "agentEnd"
  /\ \E i \in DOMAIN events : events[i].type = "uiDirective"

====
